---------------------------- MODULE Spec2Model ----------------------------
(***************************************************************************)
(* FROST threshold-signing application (f3rmion/fy-ledger): the APDU       *)
(* dispatcher, the command handlers, the persistent key share, the         *)
(* ephemeral signing context, the FROST mathematics and the Baby Jubjub    *)
(* curve back end.                                                         *)
(*                                                                         *)
(* Scale.  The program works on 32-byte scalars and points, 96-byte        *)
(* commitment entries and up to 15 (frost_storage.h) or 16 (frost.h)       *)
(* participants.  The model keeps every byte-level operation of the code   *)
(* but shortens the buffers: scalars and compressed points are 1 byte,     *)
(* the identifier field is 3 bytes (the identifier is decoded from its     *)
(* last two bytes, as in the code), and the two participant maxima are     *)
(* 2 and 3, which keeps the difference of one between the two headers.     *)
(* The curve is a twisted Edwards curve a*x^2 + y^2 = 1 + d*x^2*y^2 with   *)
(* a = -1 over the prime 73, of order 8 * 11, used exactly through the     *)
(* formulas of curve_bjj.c.                                                *)
(***************************************************************************)
EXTENDS Integers, Sequences, FiniteSets, TLC

(***************************************************************************)
(* Sizes (curve.h, frost_storage.h, frost.h), scaled as described above.   *)
(***************************************************************************)
CURVE_POINT_SIZE == 1
CURVE_SCALAR_SIZE == 1
IDENTIFIER_SIZE == 3
COMMITMENT_ENTRY_SIZE == IDENTIFIER_SIZE + CURVE_POINT_SIZE * 2

\* MAX_PARTICIPANTS as frost_storage.h defines it: it sizes commitment_list.
MAX_PARTICIPANTS_STORAGE == 2
\* MAX_PARTICIPANTS as frost.h redefines it: handler.c includes frost.h after
\* frost_storage.h, so this is the value the handlers compare and size with.
MAX_PARTICIPANTS == 3

\* sizeof(G_frost_ctx.commitment_list)
COMMITMENT_LIST_SIZE == MAX_PARTICIPANTS_STORAGE * COMMITMENT_ENTRY_SIZE

\* Length of the key-injection payload: pubkey || identifier field || secret.
INJECT_KEYS_LEN == CURVE_POINT_SIZE + IDENTIFIER_SIZE + CURVE_SCALAR_SIZE

CURVE_ID == 0

MAJOR_VERSION == 1
MINOR_VERSION == 0
PATCH_VERSION == 0

(***************************************************************************)
(* Status words (handler.h).                                               *)
(***************************************************************************)
SW_OK == 36864
SW_WRONG_LENGTH == 26368
SW_WRONG_P1P2 == 27270
SW_CONDITIONS_NOT_SAT == 27013
SW_INVALID_DATA == 27264
SW_INS_NOT_SUPPORTED == 27904
SW_CLA_NOT_SUPPORTED == 28160
SW_USER_REJECTED == 27013
SW_INTERNAL_ERROR == 28416

(***************************************************************************)
(* Bounds of the model.                                                    *)
(***************************************************************************)
\* Number of cx_rng calls a behaviour may make (two per generate_commitments).
MaxDraws == 4
\* Largest data length (Lc) of a commitment-list request.
MaxDataLen == 6
\* The value of the first byte the random source returns is RngBase + 1.
RngBase == 22

(***************************************************************************)
(* Bytes and big-endian numbers.                                           *)
(***************************************************************************)
Byte == 0..255

Zeros(n) == [i \in 1..n |-> 0]

RECURSIVE BytesToInt(_)
\* cx_bn_init: a big-endian byte string as a number.
BytesToInt(s) ==
    IF Len(s) = 0 THEN 0
    ELSE BytesToInt(SubSeq(s, 1, Len(s) - 1)) * 256 + s[Len(s)]

RECURSIVE Pow(_, _)
Pow(b, e) == IF e = 0 THEN 1 ELSE b * Pow(b, e - 1)

\* cx_bn_export: a number as a big-endian byte string of n bytes.
IntToBytes(v, n) == [i \in 1..n |-> (v \div Pow(256, n - i)) % 256]

\* memcpy(dst + off, src, len(src)) on a buffer held as a sequence.
MemCpy(dst, off, src) ==
    [i \in 1..Len(dst) |->
        IF i > off /\ i <= off + Len(src) THEN src[i - off] ELSE dst[i]]


(***************************************************************************)
(* Baby Jubjub constants (curve_bjj.c), on the scaled curve.               *)
(***************************************************************************)
\* Base field prime.
BJJ_PRIME == 73
\* (p - 1) / 2, the threshold of the sign bit.
BJJ_HALF_PRIME == 36
\* Curve parameter a = -1 mod p.
BJJ_A == 72
\* Curve parameter d.
BJJ_D == 5
\* Order of the subgroup generated by the base point.
CURVE_ORDER == 11
\* 2^(8 * CURVE_SCALAR_SIZE) mod CURVE_ORDER, the constant of reduce_64.
MOD_2_256 == 3
\* Base point and identity, uncompressed.
BJJ_GENERATOR_UNCOMPRESSED == [x |-> 1, y |-> 6]
BJJ_IDENTITY == [x |-> 0, y |-> 1]
\* Base point, compressed.
CURVE_GENERATOR == <<6>>

(***************************************************************************)
(* The SDK's big-number primitives as the code uses them.  A call whose    *)
(* error code the code ignores leaves its destination as it was.           *)
(***************************************************************************)
cx_bn_mod_add(a, b, m) == ((a % m) + (b % m)) % m
cx_bn_mod_sub(a, b, m) == ((a % m) - (b % m) + m) % m
cx_bn_mod_mul(a, b, m) == ((a % m) * (b % m)) % m
cx_bn_reduce(v, m) == v % m

\* Inverses modulo the field prime and modulo the subgroup order; 0 where none
\* exists (never read: cx_bn_mod_invert_nprime is guarded by its divisibility).
FieldInverse ==
    [v \in 0..(BJJ_PRIME - 1) |->
        IF v = 0 THEN 0 ELSE CHOOSE w \in 1..(BJJ_PRIME - 1) : (v * w) % BJJ_PRIME = 1]
OrderInverse ==
    [v \in 0..(CURVE_ORDER - 1) |->
        IF v = 0 THEN 0 ELSE CHOOSE w \in 1..(CURVE_ORDER - 1) : (v * w) % CURVE_ORDER = 1]

\* cx_bn_mod_invert_nprime(dst, v, m): dst receives the inverse of v; when v is
\* 0 modulo m the call fails and dst keeps the value `stale` it held before.
cx_bn_mod_invert_nprime(stale, v, m) ==
    IF v % m = 0 THEN stale
    ELSE IF m = BJJ_PRIME THEN FieldInverse[v % m] ELSE OrderInverse[v % m]

\* Square roots modulo the field prime: the set of roots of v.
FieldRoots ==
    [v \in 0..(BJJ_PRIME - 1) |-> {r \in 0..(BJJ_PRIME - 1) : (r * r) % BJJ_PRIME = v}]

\* cx_bn_mod_sqrt: fails on a non-residue, else returns one of the two roots
\* (the caller normalises the choice with the sign bit).
cx_bn_mod_sqrt(v, m) ==
    IF FieldRoots[v % m] = {} THEN [ok |-> FALSE, root |-> 0]
    ELSE [ok |-> TRUE,
          root |-> CHOOSE r \in FieldRoots[v % m] : \A q \in FieldRoots[v % m] : r <= q]

(***************************************************************************)
(* Point compression and decompression (curve_bjj.c).                      *)
(***************************************************************************)
\* X > (p - 1) / 2, compared as big-endian byte strings.
is_x_largest(x) == x > BJJ_HALF_PRIME

\* Y little-endian with the sign of X in the top bit of the last byte.
bjj_compress(pt) ==
    LET le == [i \in 1..CURVE_POINT_SIZE |->
                  IntToBytes(pt.y, CURVE_POINT_SIZE)[CURVE_POINT_SIZE + 1 - i]]
        last == le[CURVE_POINT_SIZE]
    IN  [le EXCEPT ![CURVE_POINT_SIZE] =
            IF is_x_largest(pt.x) /\ last < 128 THEN last + 128 ELSE last]

\* bn_ok: whether the SDK grants the big-number lock and allocations
\* (field_init and cx_bn_alloc); the function fails when it does not.
bjj_decompress(compressed, bn_ok) ==
    LET sign == compressed[CURVE_POINT_SIZE] \div 128
        temp == [compressed EXCEPT ![CURVE_POINT_SIZE] = compressed[CURVE_POINT_SIZE] % 128]
        y    == BytesToInt([i \in 1..CURVE_POINT_SIZE |-> temp[CURVE_POINT_SIZE + 1 - i]])
        y2   == cx_bn_mod_mul(y, y, BJJ_PRIME)
        num  == cx_bn_mod_sub(y2, 1, BJJ_PRIME)
        den  == cx_bn_mod_sub(cx_bn_mod_mul(BJJ_D, y2, BJJ_PRIME), BJJ_A, BJJ_PRIME)
        tmp  == cx_bn_mod_invert_nprime(0, den, BJJ_PRIME)
        x2   == cx_bn_mod_mul(num, tmp, BJJ_PRIME)
        sq   == cx_bn_mod_sqrt(x2, BJJ_PRIME)
        x    == IF is_x_largest(sq.root) # (sign = 1)
                THEN cx_bn_mod_sub(BJJ_PRIME, sq.root, BJJ_PRIME)
                ELSE sq.root
    IN  IF ~bn_ok \/ ~sq.ok THEN [ok |-> FALSE, pt |-> [x |-> 0, y |-> y]]
        ELSE [ok |-> TRUE, pt |-> [x |-> x, y |-> y]]

(***************************************************************************)
(* Point addition and scalar multiplication on uncompressed points.        *)
(***************************************************************************)
\* bjj_point_add_internal with y1*y2 + a*x1*x2 as the numerator of y3.
bjj_point_add_internal_y_sum(p1, p2, bn_ok) ==
    LET t1  == cx_bn_mod_mul(p1.x, p2.x, BJJ_PRIME)
        t2  == cx_bn_mod_mul(p1.y, p2.y, BJJ_PRIME)
        t3  == cx_bn_mod_mul(p1.x, p2.y, BJJ_PRIME)
        t4  == cx_bn_mod_mul(p1.y, p2.x, BJJ_PRIME)
        t5  == cx_bn_mod_mul(BJJ_D, cx_bn_mod_mul(t1, t2, BJJ_PRIME), BJJ_PRIME)
        t6  == cx_bn_mod_add(t3, t4, BJJ_PRIME)
        dx  == cx_bn_mod_add(1, t5, BJJ_PRIME)
        ix  == cx_bn_mod_invert_nprime(t4, dx, BJJ_PRIME)
        x3  == cx_bn_mod_mul(t6, ix, BJJ_PRIME)
        ny  == cx_bn_mod_add(t2, cx_bn_mod_mul(BJJ_A, t1, BJJ_PRIME), BJJ_PRIME)
        dy  == cx_bn_mod_sub(1, t5, BJJ_PRIME)
        iy  == cx_bn_mod_invert_nprime(ix, dy, BJJ_PRIME)
        y3  == cx_bn_mod_mul(ny, iy, BJJ_PRIME)
    IN  IF ~bn_ok THEN [ok |-> FALSE, pt |-> BJJ_IDENTITY]
        ELSE [ok |-> TRUE, pt |-> [x |-> x3, y |-> y3]]

bjj_point_add_internal(p1, p2, bn_ok) ==
    LET t1  == cx_bn_mod_mul(p1.x, p2.x, BJJ_PRIME)
        t2  == cx_bn_mod_mul(p1.y, p2.y, BJJ_PRIME)
        t3  == cx_bn_mod_mul(p1.x, p2.y, BJJ_PRIME)
        t4  == cx_bn_mod_mul(p1.y, p2.x, BJJ_PRIME)
        t5  == cx_bn_mod_mul(BJJ_D, cx_bn_mod_mul(t1, t2, BJJ_PRIME), BJJ_PRIME)
        t6  == cx_bn_mod_add(t3, t4, BJJ_PRIME)
        dx  == cx_bn_mod_add(1, t5, BJJ_PRIME)
        ix  == cx_bn_mod_invert_nprime(t4, dx, BJJ_PRIME)
        x3  == cx_bn_mod_mul(t6, ix, BJJ_PRIME)
        ny  == cx_bn_mod_sub(t2, cx_bn_mod_mul(BJJ_A, t1, BJJ_PRIME), BJJ_PRIME)
        dy  == cx_bn_mod_sub(1, t5, BJJ_PRIME)
        iy  == cx_bn_mod_invert_nprime(ix, dy, BJJ_PRIME)
        y3  == cx_bn_mod_mul(ny, iy, BJJ_PRIME)
    IN  IF ~bn_ok THEN [ok |-> FALSE, pt |-> BJJ_IDENTITY]
        ELSE [ok |-> TRUE, pt |-> [x |-> x3, y |-> y3]]

RECURSIVE ScalarMultLoop(_, _, _, _)
\* The double-and-add loop from bit `bit` on: R accumulates, Q is doubled once
\* per bit; bits run from the least significant bit of the last byte upwards.
ScalarMultLoop(R, Q, k, bit) ==
    IF bit = 8 * CURVE_SCALAR_SIZE THEN R
    ELSE LET R1 == IF (k \div Pow(2, bit)) % 2 = 1
                   THEN bjj_point_add_internal(R, Q, TRUE).pt ELSE R
         IN  ScalarMultLoop(R1, bjj_point_add_internal(Q, Q, TRUE).pt, k, bit + 1)

\* bjj_scalar_mult_internal with the accumulator starting at the point.
bjj_scalar_mult_internal_from_point(scalar, pt, bn_ok) ==
    IF ~bn_ok THEN [ok |-> FALSE, pt |-> BJJ_IDENTITY]
    ELSE [ok |-> TRUE, pt |-> ScalarMultLoop(pt, pt, BytesToInt(scalar), 0)]

bjj_scalar_mult_internal(scalar, pt, bn_ok) ==
    IF ~bn_ok THEN [ok |-> FALSE, pt |-> BJJ_IDENTITY]
    ELSE [ok |-> TRUE, pt |-> ScalarMultLoop(BJJ_IDENTITY, pt, BytesToInt(scalar), 0)]

(***************************************************************************)
(* Public curve interface on compressed points.                            *)
(***************************************************************************)
curve_scalar_mult(scalar, point, bn_ok) ==
    LET u == bjj_decompress(point, bn_ok)
        r == bjj_scalar_mult_internal(scalar, u.pt, bn_ok)
    IN  IF ~u.ok \/ ~r.ok THEN [ok |-> FALSE, out |-> Zeros(CURVE_POINT_SIZE)]
        ELSE [ok |-> TRUE, out |-> bjj_compress(r.pt)]

curve_base_mult(scalar, bn_ok) ==
    LET r == bjj_scalar_mult_internal(scalar, BJJ_GENERATOR_UNCOMPRESSED, bn_ok)
    IN  IF ~r.ok THEN [ok |-> FALSE, out |-> Zeros(CURVE_POINT_SIZE)]
        ELSE [ok |-> TRUE, out |-> bjj_compress(r.pt)]

curve_point_add(p1, p2, bn_ok) ==
    LET u1 == bjj_decompress(p1, bn_ok)
        u2 == bjj_decompress(p2, bn_ok)
        r  == bjj_point_add_internal(u1.pt, u2.pt, bn_ok)
    IN  IF ~u1.ok \/ ~u2.ok \/ ~r.ok THEN [ok |-> FALSE, out |-> Zeros(CURVE_POINT_SIZE)]
        ELSE [ok |-> TRUE, out |-> bjj_compress(r.pt)]

curve_is_valid_point(point, bn_ok) == bjj_decompress(point, bn_ok).ok

(***************************************************************************)
(* Scalar operations modulo the subgroup order.                            *)
(***************************************************************************)
curve_scalar_add(a, b) ==
    IntToBytes(cx_bn_mod_add(BytesToInt(a), BytesToInt(b), CURVE_ORDER), CURVE_SCALAR_SIZE)

curve_scalar_mul(a, b) ==
    IntToBytes(cx_bn_mod_mul(BytesToInt(a), BytesToInt(b), CURVE_ORDER), CURVE_SCALAR_SIZE)

\* curve_scalar_reduce that exports the value as it came.
curve_scalar_reduce_skipped(value) == value

curve_scalar_reduce(value) ==
    IntToBytes(cx_bn_reduce(BytesToInt(value), CURVE_ORDER), CURVE_SCALAR_SIZE)

\* curve_scalar_reduce_64 that reduces the low half and drops the high half.
curve_scalar_reduce_64_low_only(value) ==
    LET low == BytesToInt(SubSeq(value, CURVE_SCALAR_SIZE + 1, 2 * CURVE_SCALAR_SIZE))
    IN  IntToBytes(cx_bn_reduce(low, CURVE_ORDER), CURVE_SCALAR_SIZE)

\* value holds 2 * CURVE_SCALAR_SIZE bytes: high half first, low half last.
curve_scalar_reduce_64(value) ==
    LET high == BytesToInt(SubSeq(value, 1, CURVE_SCALAR_SIZE))
        low  == BytesToInt(SubSeq(value, CURVE_SCALAR_SIZE + 1, 2 * CURVE_SCALAR_SIZE))
        tmp2 == cx_bn_mod_mul(cx_bn_reduce(high, CURVE_ORDER), MOD_2_256, CURVE_ORDER)
        tmp  == cx_bn_reduce(low, CURVE_ORDER)
    IN  IntToBytes(cx_bn_mod_add(tmp2, tmp, CURVE_ORDER), CURVE_SCALAR_SIZE)

(***************************************************************************)
(* FROST mathematics (frost.c).                                            *)
(***************************************************************************)
\* First bytes of the domain-separation prefix "FROST-EDBABYJUJUB-BLAKE512-v1".
FROST_DOMAIN_PREFIX == <<70, 82>>
\* The tags "rho" and "chal".
TagRho == <<114, 104, 111>>
TagChal == <<99, 104, 97, 108>>

RECURSIVE HashAbsorb(_, _, _)
HashAbsorb(h, data, i) ==
    IF i > Len(data) THEN h
    ELSE HashAbsorb((h * 33 + data[i] + 1) % 65521, data, i + 1)

\* The Blake2b-512 capability of the SDK (cx_blake2b_init_no_throw and
\* cx_hash_no_throw): a fixed function of the bytes absorbed, here with a
\* digest of 2 * CURVE_SCALAR_SIZE bytes.
Blake2b512(data) == IntToBytes(HashAbsorb(5381, data, 1), 2 * CURVE_SCALAR_SIZE)

reverse_bytes(in) == [i \in 1..Len(in) |-> in[Len(in) + 1 - i]]

\* The list is already in wire format: the first n entries are copied.
frost_encode_commitments(commitment_list, num_participants) ==
    SubSeq(commitment_list, 1, num_participants * COMMITMENT_ENTRY_SIZE)

\* H1 = reduce_64(LE(Blake2b(prefix || "rho" || message || list || signer id))).
frost_compute_binding_factor(message_hash, enc_commit_list, signer_id) ==
    curve_scalar_reduce_64(reverse_bytes(Blake2b512(
        FROST_DOMAIN_PREFIX \o TagRho \o message_hash \o enc_commit_list \o signer_id)))

\* H2 = reduce_64(LE(Blake2b(prefix || "chal" || R || Y || message))).
frost_compute_challenge(group_commitment, group_pubkey, message_hash) ==
    curve_scalar_reduce_64(reverse_bytes(Blake2b512(
        FROST_DOMAIN_PREFIX \o TagChal \o group_commitment \o group_pubkey \o message_hash)))

RECURSIVE LagrangeLoop(_, _, _, _, _)
\* The loop of compute_lagrange_coeff from index j on; tmp is the big number
\* that receives the inverse and keeps its value when the inversion fails.
LagrangeLoop(lambda, tmp, my_id, participant_ids, j) ==
    IF j > Len(participant_ids) THEN lambda
    ELSE IF participant_ids[j] = my_id
         THEN LagrangeLoop(lambda, tmp, my_id, participant_ids, j + 1)
         ELSE LET xj   == participant_ids[j]
                  den  == cx_bn_mod_sub(xj, my_id, CURVE_ORDER)
                  inv  == cx_bn_mod_invert_nprime(tmp, den, CURVE_ORDER)
                  tmp1 == cx_bn_mod_mul(xj, inv, CURVE_ORDER)
              IN  LagrangeLoop(cx_bn_mod_mul(lambda, tmp1, CURVE_ORDER), tmp1,
                               my_id, participant_ids, j + 1)

\* compute_lagrange_coeff whose loop starts at the second list entry.
compute_lagrange_coeff_from_second(my_id, participant_ids) ==
    IntToBytes(LagrangeLoop(1, 0, my_id, participant_ids, 2), CURVE_SCALAR_SIZE)

compute_lagrange_coeff(my_id, participant_ids) ==
    IntToBytes(LagrangeLoop(1, 0, my_id, participant_ids, 1), CURVE_SCALAR_SIZE)

RECURSIVE GroupCommitmentLoop(_, _, _, _, _, _, _)
\* The loop of frost_compute_group_commitment from entry i (0-based) on.
GroupCommitmentLoop(sum, first, commitment_list, binding_factors, n, i, bn_ok) ==
    IF i >= n THEN [ok |-> TRUE, out |-> sum]
    ELSE LET base  == i * COMMITMENT_ENTRY_SIZE
             hid   == SubSeq(commitment_list, base + IDENTIFIER_SIZE + 1,
                             base + IDENTIFIER_SIZE + CURVE_POINT_SIZE)
             bind  == SubSeq(commitment_list, base + IDENTIFIER_SIZE + CURVE_POINT_SIZE + 1,
                             base + COMMITMENT_ENTRY_SIZE)
             rho   == SubSeq(binding_factors, i * CURVE_SCALAR_SIZE + 1,
                             (i + 1) * CURVE_SCALAR_SIZE)
             rb    == curve_scalar_mult(rho, bind, bn_ok)
             term  == curve_point_add(hid, rb.out, bn_ok)
             acc   == curve_point_add(sum, term.out, bn_ok)
         IN  IF ~rb.ok THEN [ok |-> FALSE, out |-> sum]
             ELSE IF ~term.ok THEN [ok |-> FALSE, out |-> sum]
             ELSE IF first
                  THEN GroupCommitmentLoop(term.out, FALSE, commitment_list,
                                           binding_factors, n, i + 1, bn_ok)
             ELSE IF ~acc.ok THEN [ok |-> FALSE, out |-> sum]
             ELSE GroupCommitmentLoop(acc.out, FALSE, commitment_list,
                                      binding_factors, n, i + 1, bn_ok)

\* The memcpy after the loop of frost_compute_group_commitment: the sum is
\* copied to result when the loop has ended without a failure.
CopyOnSuccess(result, r) == IF r.ok THEN r ELSE [ok |-> FALSE, out |-> result]

\* frost_compute_group_commitment that copies its running sum to the result
\* when it fails.
frost_compute_group_commitment_partial(result, commitment_list, binding_factors, num_participants, bn_ok) ==
    GroupCommitmentLoop(Zeros(CURVE_POINT_SIZE), TRUE, commitment_list,
                        binding_factors, num_participants, 0, bn_ok)

\* R = sum over the entries of HidingPoint_i + rho_i * BindingPoint_i.  result
\* is the caller's buffer as it is before the call: it is written by the
\* memcpy after the loop and by nothing else.
frost_compute_group_commitment(result, commitment_list, binding_factors, num_participants, bn_ok) ==
    CopyOnSuccess(result,
                  GroupCommitmentLoop(Zeros(CURVE_POINT_SIZE), TRUE, commitment_list,
                                      binding_factors, num_participants, 0, bn_ok))

\* frost_compute_partial_sig without the Lagrange coefficient.
frost_compute_partial_sig_no_lambda(hiding_nonce, binding_nonce, binding_factor, secret_share, challenge, identifier, participant_ids) ==
    LET tmp1   == curve_scalar_mul(binding_nonce, binding_factor)
        tmp2   == curve_scalar_mul(secret_share, challenge)
    IN  curve_scalar_add(curve_scalar_add(hiding_nonce, tmp1), tmp2)

\* z = hiding_nonce + binding_nonce * binding_factor + secret * challenge * lambda.
frost_compute_partial_sig(hiding_nonce, binding_nonce, binding_factor, secret_share, challenge, identifier, participant_ids) ==
    LET lambda == compute_lagrange_coeff(identifier, participant_ids)
        tmp1   == curve_scalar_mul(binding_nonce, binding_factor)
        tmp2   == curve_scalar_mul(curve_scalar_mul(secret_share, challenge), lambda)
    IN  curve_scalar_add(curve_scalar_add(hiding_nonce, tmp1), tmp2)

(***************************************************************************)
(* Persistent key share and ephemeral signing context (frost_storage.h/c). *)
(***************************************************************************)
FROST_STATE_IDLE == 0
FROST_STATE_COMMITTED == 1
FROST_STATE_MESSAGE_SET == 2
FROST_STATE_COMMITMENTS_SET == 3
FROST_STATE_READY_TO_SIGN == 4

\* N_frost_real: zero bytes on installation.
ZeroStorage ==
    [initialized      |-> 0,
     curve_id         |-> 0,
     identifier       |-> 0,
     group_public_key |-> Zeros(CURVE_POINT_SIZE),
     secret_share     |-> Zeros(CURVE_SCALAR_SIZE)]

\* A frost_ctx_t of zero bytes.
ZeroCtx ==
    [state                     |-> FROST_STATE_IDLE,
     hiding_nonce              |-> Zeros(CURVE_SCALAR_SIZE),
     binding_nonce             |-> Zeros(CURVE_SCALAR_SIZE),
     hiding_commit             |-> Zeros(CURVE_POINT_SIZE),
     binding_commit            |-> Zeros(CURVE_POINT_SIZE),
     message_hash              |-> Zeros(CURVE_SCALAR_SIZE),
     num_participants          |-> 0,
     commitment_bytes_received |-> 0,
     commitment_list           |-> Zeros(COMMITMENT_LIST_SIZE)]

\* explicit_bzero(&G_frost_ctx, sizeof(G_frost_ctx)); state = IDLE.
\* frost_ctx_reset that sets the state only and leaves the buffers as they are.
frost_ctx_reset_state_only(c) == [c EXCEPT !.state = FROST_STATE_IDLE]

frost_ctx_reset(c) == [ZeroCtx EXCEPT !.state = FROST_STATE_IDLE]

frost_has_keys(nv) == nv.initialized = 1

frost_get_identifier(nv) == nv.identifier

frost_get_group_pubkey(nv) == nv.group_public_key

\* The pointers the handler passes are never NULL.
frost_inject_keys(nv, curve_id, group_pubkey, identifier, secret_share) ==
    IF identifier = 0 THEN [ok |-> FALSE, nv |-> nv]
    ELSE [ok |-> TRUE,
          nv |-> [initialized      |-> 1,
                  curve_id         |-> curve_id,
                  identifier       |-> identifier,
                  group_public_key |-> group_pubkey,
                  secret_share     |-> secret_share]]

\* The bytes of RAM that follow G_frost_ctx.commitment_list, as far as a list of
\* MAX_PARTICIPANTS entries reaches beyond the buffer.
RAM_AFTER_SIZE == (MAX_PARTICIPANTS - MAX_PARTICIPANTS_STORAGE) * COMMITMENT_ENTRY_SIZE

\* commitment_list followed by the RAM behind it: what the address
\* G_frost_ctx.commitment_list + offset designates.
ListMemory(c, ram) == c.commitment_list \o ram

\* cx_rng with `calls` earlier calls: CURVE_SCALAR_SIZE bytes not returned before.
cx_rng(calls) == IntToBytes((RngBase + calls + 1) % 256, CURVE_SCALAR_SIZE)

\* What a handler hands back to app_main: the new context, RAM and key record,
\* the status word and the response bytes; besides, for the record of the run,
\* the number of cx_rng calls made, the nonce pair given to
\* frost_compute_partial_sig (<<>> when it was not called) and whether the user
\* interface was asked for a confirmation.
Ret(c, ram, nv, status, resp) ==
    [ctx |-> c, ram |-> ram, nv |-> nv, sw |-> status, response |-> resp,
     draws |-> 0, used |-> <<>>, asked |-> FALSE]

(***************************************************************************)
(* Command handlers (handler.c).  c is G_frost_ctx, ram the RAM behind it, *)
(* nv is N_frost.                                                          *)
(***************************************************************************)
handle_get_version(c, ram, nv) ==
    Ret(c, ram, nv, SW_OK, <<MAJOR_VERSION, MINOR_VERSION, PATCH_VERSION>>)

\* handle_get_public_key that copies the neighbouring field of N_frost.
handle_get_public_key_wrong_field(c, ram, nv) ==
    IF ~frost_has_keys(nv) THEN Ret(c, ram, nv, SW_CONDITIONS_NOT_SAT, <<>>)
    ELSE Ret(c, ram, nv, SW_OK, nv.secret_share)

handle_get_public_key(c, ram, nv) ==
    IF ~frost_has_keys(nv) THEN Ret(c, ram, nv, SW_CONDITIONS_NOT_SAT, <<>>)
    ELSE Ret(c, ram, nv, SW_OK, frost_get_group_pubkey(nv))

\* handle_inject_keys that starts a fresh session when it stores a key share.
handle_inject_keys_resetting(c, ram, nv, p1, data, approved) ==
    IF p1 # CURVE_ID THEN Ret(c, ram, nv, SW_WRONG_P1P2, <<>>)
    ELSE IF Len(data) # INJECT_KEYS_LEN THEN Ret(c, ram, nv, SW_WRONG_LENGTH, <<>>)
    ELSE LET group_pubkey == SubSeq(data, 1, CURVE_POINT_SIZE)
             id_bytes     == SubSeq(data, CURVE_POINT_SIZE + 1, CURVE_POINT_SIZE + IDENTIFIER_SIZE)
             secret_share == SubSeq(data, CURVE_POINT_SIZE + IDENTIFIER_SIZE + 1, INJECT_KEYS_LEN)
             identifier   == id_bytes[IDENTIFIER_SIZE - 1] * 256 + id_bytes[IDENTIFIER_SIZE]
             stored       == frost_inject_keys(nv, p1, group_pubkey, identifier, secret_share)
         IN  IF identifier = 0 THEN Ret(c, ram, nv, SW_INVALID_DATA, <<>>)
             ELSE IF ~approved
                  THEN [Ret(c, ram, nv, SW_USER_REJECTED, <<>>) EXCEPT !.asked = TRUE]
             ELSE IF ~stored.ok
                  THEN [Ret(c, ram, nv, SW_INTERNAL_ERROR, <<>>) EXCEPT !.asked = TRUE]
             ELSE [Ret(frost_ctx_reset(c), ram, stored.nv, SW_OK, <<>>) EXCEPT !.asked = TRUE]

\* approved: what ui_confirm_inject_keys returns when it is asked.
\* handle_inject_keys that refuses only a payload that is too short.
handle_inject_keys_min_length(c, ram, nv, p1, data, approved) ==
    IF p1 # CURVE_ID THEN Ret(c, ram, nv, SW_WRONG_P1P2, <<>>)
    ELSE IF Len(data) < INJECT_KEYS_LEN THEN Ret(c, ram, nv, SW_WRONG_LENGTH, <<>>)
    ELSE LET group_pubkey == SubSeq(data, 1, CURVE_POINT_SIZE)
             id_bytes     == SubSeq(data, CURVE_POINT_SIZE + 1, CURVE_POINT_SIZE + IDENTIFIER_SIZE)
             secret_share == SubSeq(data, CURVE_POINT_SIZE + IDENTIFIER_SIZE + 1, INJECT_KEYS_LEN)
             identifier   == id_bytes[IDENTIFIER_SIZE - 1] * 256 + id_bytes[IDENTIFIER_SIZE]
             stored       == frost_inject_keys(nv, p1, group_pubkey, identifier, secret_share)
         IN  IF identifier = 0 THEN Ret(c, ram, nv, SW_INVALID_DATA, <<>>)
             ELSE IF ~approved
                  THEN [Ret(c, ram, nv, SW_USER_REJECTED, <<>>) EXCEPT !.asked = TRUE]
             ELSE IF ~stored.ok
                  THEN [Ret(c, ram, nv, SW_INTERNAL_ERROR, <<>>) EXCEPT !.asked = TRUE]
             ELSE [Ret(c, ram, stored.nv, SW_OK, <<>>) EXCEPT !.asked = TRUE]

handle_inject_keys(c, ram, nv, p1, data, approved) ==
    IF p1 # CURVE_ID THEN Ret(c, ram, nv, SW_WRONG_P1P2, <<>>)
    ELSE IF Len(data) # INJECT_KEYS_LEN THEN Ret(c, ram, nv, SW_WRONG_LENGTH, <<>>)
    ELSE LET group_pubkey == SubSeq(data, 1, CURVE_POINT_SIZE)
             id_bytes     == SubSeq(data, CURVE_POINT_SIZE + 1, CURVE_POINT_SIZE + IDENTIFIER_SIZE)
             secret_share == SubSeq(data, CURVE_POINT_SIZE + IDENTIFIER_SIZE + 1, INJECT_KEYS_LEN)
             identifier   == id_bytes[IDENTIFIER_SIZE - 1] * 256 + id_bytes[IDENTIFIER_SIZE]
             stored       == frost_inject_keys(nv, p1, group_pubkey, identifier, secret_share)
         IN  IF identifier = 0 THEN Ret(c, ram, nv, SW_INVALID_DATA, <<>>)
             ELSE IF ~approved
                  THEN [Ret(c, ram, nv, SW_USER_REJECTED, <<>>) EXCEPT !.asked = TRUE]
             ELSE IF ~stored.ok
                  THEN [Ret(c, ram, nv, SW_INTERNAL_ERROR, <<>>) EXCEPT !.asked = TRUE]
             ELSE [Ret(c, ram, stored.nv, SW_OK, <<>>) EXCEPT !.asked = TRUE]

\* handle_commit without the check for a stored key share.
handle_commit_without_keys(c, ram, nv, calls, bn_ok) ==
    IF c.state # FROST_STATE_IDLE THEN Ret(c, ram, nv, SW_CONDITIONS_NOT_SAT, <<>>)
    ELSE LET hn == curve_scalar_reduce(cx_rng(calls))
             bn == curve_scalar_reduce(cx_rng(calls + 1))
             hc == curve_base_mult(hn, bn_ok)
             bc == curve_base_mult(bn, bn_ok)
             c1 == [c EXCEPT !.hiding_nonce = hn, !.binding_nonce = bn,
                             !.hiding_commit = hc.out, !.binding_commit = bc.out,
                             !.state = FROST_STATE_COMMITTED]
         IN  IF ~hc.ok THEN [Ret(frost_ctx_reset(c), ram, nv, SW_INTERNAL_ERROR, <<>>) EXCEPT !.draws = 2]
             ELSE IF ~bc.ok THEN [Ret(frost_ctx_reset(c), ram, nv, SW_INTERNAL_ERROR, <<>>) EXCEPT !.draws = 2]
             ELSE [Ret(c1, ram, nv, SW_OK, c1.hiding_commit \o c1.binding_commit) EXCEPT !.draws = 2]

\* handle_commit without the check of the session state.
handle_commit_any_state(c, ram, nv, calls, bn_ok) ==
    IF ~frost_has_keys(nv) THEN Ret(c, ram, nv, SW_CONDITIONS_NOT_SAT, <<>>)
    ELSE LET hn == curve_scalar_reduce(cx_rng(calls))
             bn == curve_scalar_reduce(cx_rng(calls + 1))
             hc == curve_base_mult(hn, bn_ok)
             bc == curve_base_mult(bn, bn_ok)
             c1 == [c EXCEPT !.hiding_nonce = hn, !.binding_nonce = bn,
                             !.hiding_commit = hc.out, !.binding_commit = bc.out,
                             !.state = FROST_STATE_COMMITTED]
         IN  IF ~hc.ok \/ ~bc.ok
             THEN [Ret(frost_ctx_reset(c), ram, nv, SW_INTERNAL_ERROR, <<>>) EXCEPT !.draws = 2]
             ELSE [Ret(c1, ram, nv, SW_OK, c1.hiding_commit \o c1.binding_commit) EXCEPT !.draws = 2]

\* calls: the number of cx_rng calls made before this one.
handle_commit(c, ram, nv, calls, bn_ok) ==
    IF ~frost_has_keys(nv) THEN Ret(c, ram, nv, SW_CONDITIONS_NOT_SAT, <<>>)
    ELSE IF c.state # FROST_STATE_IDLE THEN Ret(c, ram, nv, SW_CONDITIONS_NOT_SAT, <<>>)
    ELSE LET hn == curve_scalar_reduce(cx_rng(calls))
             bn == curve_scalar_reduce(cx_rng(calls + 1))
             hc == curve_base_mult(hn, bn_ok)
             bc == curve_base_mult(bn, bn_ok)
             c1 == [c EXCEPT !.hiding_nonce = hn, !.binding_nonce = bn,
                             !.hiding_commit = hc.out, !.binding_commit = bc.out,
                             !.state = FROST_STATE_COMMITTED]
         IN  IF ~hc.ok THEN [Ret(frost_ctx_reset(c), ram, nv, SW_INTERNAL_ERROR, <<>>) EXCEPT !.draws = 2]
             ELSE IF ~bc.ok THEN [Ret(frost_ctx_reset(c), ram, nv, SW_INTERNAL_ERROR, <<>>) EXCEPT !.draws = 2]
             ELSE [Ret(c1, ram, nv, SW_OK, c1.hiding_commit \o c1.binding_commit) EXCEPT !.draws = 2]

\* handle_inject_message that accepts another message once one is stored.
handle_inject_message_again(c, ram, nv, data) ==
    IF ~frost_has_keys(nv) THEN Ret(c, ram, nv, SW_CONDITIONS_NOT_SAT, <<>>)
    ELSE IF c.state \notin {FROST_STATE_COMMITTED, FROST_STATE_MESSAGE_SET}
         THEN Ret(c, ram, nv, SW_CONDITIONS_NOT_SAT, <<>>)
    ELSE IF Len(data) # CURVE_SCALAR_SIZE THEN Ret(c, ram, nv, SW_WRONG_LENGTH, <<>>)
    ELSE Ret([c EXCEPT !.message_hash = data, !.state = FROST_STATE_MESSAGE_SET],
             ram, nv, SW_OK, <<>>)

\* handle_inject_message without the check of the session state.
handle_inject_message_any_state(c, ram, nv, data) ==
    IF ~frost_has_keys(nv) THEN Ret(c, ram, nv, SW_CONDITIONS_NOT_SAT, <<>>)
    ELSE IF Len(data) # CURVE_SCALAR_SIZE THEN Ret(c, ram, nv, SW_WRONG_LENGTH, <<>>)
    ELSE Ret([c EXCEPT !.message_hash = data, !.state = FROST_STATE_MESSAGE_SET],
             ram, nv, SW_OK, <<>>)

handle_inject_message(c, ram, nv, data) ==
    IF ~frost_has_keys(nv) THEN Ret(c, ram, nv, SW_CONDITIONS_NOT_SAT, <<>>)
    ELSE IF c.state # FROST_STATE_COMMITTED THEN Ret(c, ram, nv, SW_CONDITIONS_NOT_SAT, <<>>)
    ELSE IF Len(data) # CURVE_SCALAR_SIZE THEN Ret(c, ram, nv, SW_WRONG_LENGTH, <<>>)
    ELSE Ret([c EXCEPT !.message_hash = data, !.state = FROST_STATE_MESSAGE_SET],
             ram, nv, SW_OK, <<>>)

\* memcpy(G_frost_ctx.commitment_list + off, data, to_copy): the context and the
\* RAM behind it after the copy.
CopyIntoList(c, ram, off, data, to_copy) ==
    LET mem == MemCpy(ListMemory(c, ram), off, SubSeq(data, 1, to_copy))
    IN  [list |-> SubSeq(mem, 1, COMMITMENT_LIST_SIZE),
         ram  |-> SubSeq(mem, COMMITMENT_LIST_SIZE + 1, Len(mem))]

\* The two response bytes: commitment_bytes_received, big-endian.
BytesReceivedResponse(c) ==
    <<(c.commitment_bytes_received \div 256) % 256, c.commitment_bytes_received % 256>>

handle_inject_commitments_p1(c, ram, nv, p1, data) ==
    IF ~frost_has_keys(nv) THEN Ret(c, ram, nv, SW_CONDITIONS_NOT_SAT, <<>>)
    ELSE IF c.state # FROST_STATE_MESSAGE_SET THEN Ret(c, ram, nv, SW_CONDITIONS_NOT_SAT, <<>>)
    ELSE IF p1 < 2 \/ p1 > MAX_PARTICIPANTS THEN Ret(c, ram, nv, SW_INVALID_DATA, <<>>)
    ELSE LET c0 == [c EXCEPT !.num_participants = p1,
                             !.commitment_bytes_received = 0,
                             !.commitment_list = Zeros(COMMITMENT_LIST_SIZE)]
             expected_total == (p1 * COMMITMENT_ENTRY_SIZE) % 65536
             to_copy == IF Len(data) > expected_total THEN expected_total ELSE Len(data)
             w  == CopyIntoList(c0, ram, 0, data, to_copy)
             c1 == [c0 EXCEPT !.commitment_list = w.list,
                              !.commitment_bytes_received = to_copy]
             c2 == IF c1.commitment_bytes_received >= expected_total
                   THEN [c1 EXCEPT !.state = FROST_STATE_COMMITMENTS_SET] ELSE c1
         IN  Ret(c2, w.ram, nv, SW_OK, BytesReceivedResponse(c2))

handle_inject_commitments_p2(c, ram, nv, data) ==
    IF ~frost_has_keys(nv) THEN Ret(c, ram, nv, SW_CONDITIONS_NOT_SAT, <<>>)
    ELSE IF c.state # FROST_STATE_MESSAGE_SET THEN Ret(c, ram, nv, SW_CONDITIONS_NOT_SAT, <<>>)
    ELSE LET expected_total == (c.num_participants * COMMITMENT_ENTRY_SIZE) % 65536
             remaining == (expected_total - c.commitment_bytes_received + 65536) % 65536
             to_copy == IF Len(data) > remaining THEN remaining ELSE Len(data)
             w  == CopyIntoList(c, ram, c.commitment_bytes_received, data, to_copy)
             c1 == [c EXCEPT !.commitment_list = w.list,
                             !.commitment_bytes_received =
                                 (c.commitment_bytes_received + to_copy) % 65536]
             c2 == IF c1.commitment_bytes_received >= expected_total
                   THEN [c1 EXCEPT !.state = FROST_STATE_COMMITMENTS_SET] ELSE c1
         IN  Ret(c2, w.ram, nv, SW_OK, BytesReceivedResponse(c2))

\* Entry i (0-based) of the list memory.
ListEntry(mem, i) ==
    SubSeq(mem, i * COMMITMENT_ENTRY_SIZE + 1, (i + 1) * COMMITMENT_ENTRY_SIZE)

\* participant_ids[i]: the last two bytes of the identifier field, big-endian.
ParticipantIds(mem, n) ==
    [k \in 1..n |-> ListEntry(mem, k - 1)[IDENTIFIER_SIZE - 1] * 256
                    + ListEntry(mem, k - 1)[IDENTIFIER_SIZE]]

\* binding_factors: one scalar per entry, keyed by the entry's identifier field.
BindingFactors(mem, n, message_hash, enc_commit_list) ==
    [k \in 1..n |->
        frost_compute_binding_factor(message_hash, enc_commit_list,
                                     SubSeq(ListEntry(mem, k - 1), 1, IDENTIFIER_SIZE))]

RECURSIVE FindSelfLast(_, _, _)
\* The search loop without its break: the last index whose identifier is my_id.
FindSelfLast(participant_ids, my_id, i) ==
    IF i > Len(participant_ids) THEN 0
    ELSE LET later == FindSelfLast(participant_ids, my_id, i + 1)
         IN  IF later # 0 THEN later
             ELSE IF participant_ids[i] = my_id THEN i ELSE 0

RECURSIVE FindSelf(_, _, _)
\* The search loop with its break: the first index (1-based) from i on whose
\* identifier is my_id, or 0 when found_self stays false.
FindSelf(participant_ids, my_id, i) ==
    IF i > Len(participant_ids) THEN 0
    ELSE IF participant_ids[i] = my_id THEN i
    ELSE FindSelf(participant_ids, my_id, i + 1)

RECURSIVE Flatten(_, _)
\* The binding factors laid out one after the other, from index i on.
Flatten(factors, i) ==
    IF i > Len(factors) THEN <<>> ELSE factors[i] \o Flatten(factors, i + 1)

\* A successful handle_partial_sign that returns without clearing anything.
keep_after_sign(c) == c

\* The end of a successful handle_partial_sign: explicit_bzero of both nonces,
\* then frost_ctx_reset.
clear_after_sign(c) ==
    frost_ctx_reset([c EXCEPT !.hiding_nonce = Zeros(CURVE_SCALAR_SIZE),
                              !.binding_nonce = Zeros(CURVE_SCALAR_SIZE)])

\* handle_partial_sign once the user has approved.
\* partial_sign_compute that drops the result of frost_compute_group_commitment.
partial_sign_compute_unchecked(c, ram, nv, bn_ok) ==
    LET mem   == ListMemory(c, ram)
        n     == c.num_participants
        ids   == ParticipantIds(mem, n)
        enc   == frost_encode_commitments(mem, n)
        bfs   == BindingFactors(mem, n, c.message_hash, enc)
        my_id == frost_get_identifier(nv)
        self  == FindSelf(ids, my_id, 1)
        R     == frost_compute_group_commitment(Zeros(CURVE_POINT_SIZE), mem,
                                                Flatten(bfs, 1), n, bn_ok)
        chal  == frost_compute_challenge(R.out, frost_get_group_pubkey(nv), c.message_hash)
        z     == frost_compute_partial_sig(c.hiding_nonce, c.binding_nonce, bfs[self],
                                           nv.secret_share, chal,
                                           frost_get_identifier(nv), ids)
    IN  IF self = 0 THEN Ret(frost_ctx_reset(c), ram, nv, SW_INVALID_DATA, <<>>)
        ELSE [Ret(clear_after_sign(c), ram, nv, SW_OK, z)
                  EXCEPT !.used = <<c.hiding_nonce, c.binding_nonce>>]

partial_sign_compute(c, ram, nv, bn_ok) ==
    LET mem   == ListMemory(c, ram)
        n     == c.num_participants
        ids   == ParticipantIds(mem, n)
        enc   == frost_encode_commitments(mem, n)
        bfs   == BindingFactors(mem, n, c.message_hash, enc)
        my_id == frost_get_identifier(nv)
        self  == FindSelf(ids, my_id, 1)
        R     == frost_compute_group_commitment(Zeros(CURVE_POINT_SIZE), mem,
                                                Flatten(bfs, 1), n, bn_ok)
        chal  == frost_compute_challenge(R.out, frost_get_group_pubkey(nv), c.message_hash)
        z     == frost_compute_partial_sig(c.hiding_nonce, c.binding_nonce, bfs[self],
                                           nv.secret_share, chal,
                                           frost_get_identifier(nv), ids)
    IN  IF self = 0 THEN Ret(frost_ctx_reset(c), ram, nv, SW_INVALID_DATA, <<>>)
        ELSE IF ~R.ok THEN Ret(frost_ctx_reset(c), ram, nv, SW_INTERNAL_ERROR, <<>>)
        ELSE [Ret(clear_after_sign(c), ram, nv, SW_OK, z)
                  EXCEPT !.used = <<c.hiding_nonce, c.binding_nonce>>]

\* handle_partial_sign that calls ui_confirm_sign and drops its result.
handle_partial_sign_unconfirmed(c, ram, nv, approved, bn_ok) ==
    IF ~frost_has_keys(nv) THEN Ret(c, ram, nv, SW_CONDITIONS_NOT_SAT, <<>>)
    ELSE IF c.state # FROST_STATE_COMMITMENTS_SET
         THEN Ret(c, ram, nv, SW_CONDITIONS_NOT_SAT, <<>>)
    ELSE [partial_sign_compute(c, ram, nv, bn_ok) EXCEPT !.asked = TRUE]

\* approved: what ui_confirm_sign returns when it is asked.
handle_partial_sign(c, ram, nv, approved, bn_ok) ==
    IF ~frost_has_keys(nv) THEN Ret(c, ram, nv, SW_CONDITIONS_NOT_SAT, <<>>)
    ELSE IF c.state # FROST_STATE_COMMITMENTS_SET
         THEN Ret(c, ram, nv, SW_CONDITIONS_NOT_SAT, <<>>)
    ELSE IF ~approved
         THEN [Ret(frost_ctx_reset(c), ram, nv, SW_USER_REJECTED, <<>>) EXCEPT !.asked = TRUE]
    ELSE [partial_sign_compute(c, ram, nv, bn_ok) EXCEPT !.asked = TRUE]

handle_reset(c, ram, nv) == Ret(frost_ctx_reset(c), ram, nv, SW_OK, <<>>)

\* A dispatcher that answers a thrown status without resetting the context.
app_main_catch_no_reset(c, ram, nv, e) ==
    LET status == IF (e \div 4096) \in {6, 9} THEN e ELSE SW_INTERNAL_ERROR
    IN  Ret(c, ram, nv, status, <<>>)

\* app_main's CATCH_OTHER for a status thrown before any handler ran: the
\* status is kept when it is 0x6xxx or 0x9xxx, and the context is reset unless
\* it is SW_OK or SW_USER_REJECTED.
app_main_catch(c, ram, nv, e) ==
    LET status == IF (e \div 4096) \in {6, 9} THEN e ELSE SW_INTERNAL_ERROR
    IN  Ret(IF status # SW_OK /\ status # SW_USER_REJECTED THEN frost_ctx_reset(c) ELSE c,
            ram, nv, status, <<>>)

(***************************************************************************)
(* State.                                                                  *)
(***************************************************************************)
VARIABLES
    G_frost_ctx,    \* the signing context in RAM
    ram_after_ctx,  \* the RAM directly behind G_frost_ctx.commitment_list
    N_frost,        \* the key share in NVRAM
    rng_calls,      \* number of cx_rng calls made so far
    ins,            \* the request answered last
    sw,             \* the status word sent last
    response,       \* the response bytes sent last, without the status word
    confirm,        \* the user interface's answer during the last request
    sig_nonces,     \* the nonce pairs given to frost_compute_partial_sig so far
    wire,           \* the list bytes that arrived in this session since the last
                    \* accepted part-1 request, cut at the declared total
    request,        \* P1 and the data of the request answered last when it was
                    \* INJECT_KEYS, empty otherwise
    fn,             \* the curve, scalar or FROST function called last
    arg1,           \* first argument of the calls
    arg2,           \* second argument of the calls
    out             \* what the function called last returned

vars == <<G_frost_ctx, ram_after_ctx, N_frost, rng_calls, ins, sw, response,
          confirm, sig_nonces, wire, request, fn, arg1, arg2, out>>

session_vars == <<G_frost_ctx, ram_after_ctx, N_frost, rng_calls, ins, sw, response,
                  confirm, sig_nonces, wire, request>>

(***************************************************************************)
(* Requests the host sends.                                                *)
(***************************************************************************)
\* Key payloads: group public key || identifier field || secret share.  The
\* third has identifier 0 under a non-zero first byte, the fourth is one byte
\* short and the fifth one byte long.
KeyPayloads ==
    { <<194, 0, 0, 1, 3>>, <<43, 0, 0, 2, 5>>, <<194, 7, 0, 0, 3>>, <<194, 0, 0, 1>>,
      <<194, 0, 0, 1, 3, 3>> }

\* P1 of an inject_keys request: the build's curve and another one.
CurveIds == {CURVE_ID, 1}

\* Message payloads: two digests, an empty one and one that is too long.
MessagePayloads == { <<7>>, <<9>>, <<>>, <<7, 9>> }

\* Commitment entries: identifier field || hiding point || binding point.
Entry1 == <<0, 0, 1, 149, 194>>
Entry2 == <<0, 0, 2, 187, 43>>
\* Identifier 1 again, under another first byte of the field.
Entry1b == <<9, 0, 1, 171, 59>>
\* A hiding point that does not decompress.
EntryBad == <<0, 0, 2, 2, 43>>
\* Identifier 257: the high byte of the two identifier bytes is used.
Entry257 == <<0, 1, 1, 66, 21>>

\* The commitment lists a host sends.
HostLists ==
    { Entry1 \o Entry2, Entry1b \o Entry1, Entry1 \o EntryBad, Entry2 \o Entry257,
      Entry1 \o Entry2 \o Entry257 }

\* The data of a commitment-list request.  The host sends a list of `count`
\* entries (any list when no valid count is declared) and goes on from the
\* `received` bytes the device holds in mem: the request carries the next bytes
\* of that list, of any length up to MaxDataLen, and filler beyond its end.
Chunks(mem, received, count) ==
    { SubSeq(w \o [i \in 1..MaxDataLen |-> 255], received + 1, received + len) :
        w \in { v \in HostLists :
                  /\ count \in 2..MAX_PARTICIPANTS => Len(v) = count * COMMITMENT_ENTRY_SIZE
                  /\ Len(v) >= received
                  /\ SubSeq(v, 1, received) = SubSeq(mem, 1, received) },
        len \in 0..MaxDataLen } \cup { <<>> }

\* P1 of an inject_commitments request.
ParticipantCounts == 1..(MAX_PARTICIPANTS + 1)

(***************************************************************************)
(* app_main: after frost_storage_init the loop answers one request at a    *)
(* time; every action below is one turn of the loop.                       *)
(***************************************************************************)
SessionInit ==
    /\ G_frost_ctx = frost_ctx_reset(ZeroCtx)
    /\ ram_after_ctx = Zeros(RAM_AFTER_SIZE)
    /\ N_frost = ZeroStorage
    /\ rng_calls = 0
    /\ ins = "none"
    /\ sw = 0
    /\ response = <<>>
    /\ confirm = "not_asked"
    /\ sig_nonces = {}
    /\ wire = <<>>
    /\ request = <<>>

\* The application after start: no curve function called yet.
Init ==
    /\ SessionInit
    /\ fn = "none"
    /\ arg1 = Zeros(CURVE_SCALAR_SIZE)
    /\ arg2 = Zeros(CURVE_POINT_SIZE)
    /\ out = <<>>

\* The first n bytes of s, all of s when it is shorter.
Cut(s, n) == SubSeq(s, 1, IF Len(s) < n THEN Len(s) ELSE n)

\* The turn of the loop that answered request `name`, which carried `data`, with
\* handler result r; the answer `approved` of the user interface counts only
\* when it was asked.
AnswerWith(name, r, approved, data) ==
    /\ rng_calls + r.draws <= MaxDraws
    /\ G_frost_ctx' = r.ctx
    /\ ram_after_ctx' = r.ram
    /\ N_frost' = r.nv
    /\ rng_calls' = rng_calls + r.draws
    /\ ins' = name
    /\ sw' = r.sw
    /\ response' = r.response
    /\ confirm' = IF ~r.asked THEN "not_asked" ELSE IF approved THEN "approved" ELSE "denied"
    /\ sig_nonces' = IF r.used = <<>> THEN sig_nonces ELSE sig_nonces \cup {r.used}
    /\ wire' = IF name = "INJECT_COMMITMENTS_P1" /\ r.sw = SW_OK
               THEN Cut(data, r.ctx.num_participants * COMMITMENT_ENTRY_SIZE)
               ELSE IF name = "INJECT_COMMITMENTS_P2" /\ r.sw = SW_OK
               THEN Cut(wire \o data, r.ctx.num_participants * COMMITMENT_ENTRY_SIZE)
               ELSE IF r.ctx.state = FROST_STATE_IDLE THEN <<>>
               ELSE wire
    /\ request' = IF name = "INJECT_KEYS" THEN data ELSE <<>>
    /\ UNCHANGED <<fn, arg1, arg2, out>>

Answer(name, r, approved) == AnswerWith(name, r, approved, <<>>)

GetVersion ==
    Answer("GET_VERSION", handle_get_version(G_frost_ctx, ram_after_ctx, N_frost), FALSE)

GetPublicKey ==
    Answer("GET_PUBLIC_KEY", handle_get_public_key(G_frost_ctx, ram_after_ctx, N_frost), FALSE)

InjectKeys ==
    \E p1 \in CurveIds, data \in KeyPayloads, approved \in BOOLEAN :
        AnswerWith("INJECT_KEYS",
                   handle_inject_keys(G_frost_ctx, ram_after_ctx, N_frost, p1, data, approved),
                   approved, <<p1>> \o data)

Commit ==
    \E bn_ok \in BOOLEAN :
        Answer("COMMIT",
               handle_commit(G_frost_ctx, ram_after_ctx, N_frost, rng_calls, bn_ok), FALSE)

InjectMessage ==
    \E data \in MessagePayloads :
        Answer("INJECT_MESSAGE",
               handle_inject_message(G_frost_ctx, ram_after_ctx, N_frost, data), FALSE)

InjectCommitmentsP1 ==
    \E p1 \in ParticipantCounts :
      \E data \in Chunks(ListMemory(G_frost_ctx, ram_after_ctx), 0, p1) :
        AnswerWith("INJECT_COMMITMENTS_P1",
                   handle_inject_commitments_p1(G_frost_ctx, ram_after_ctx, N_frost, p1, data),
                   FALSE, data)

InjectCommitmentsP2 ==
    \E data \in Chunks(ListMemory(G_frost_ctx, ram_after_ctx),
                       G_frost_ctx.commitment_bytes_received,
                       G_frost_ctx.num_participants) :
        AnswerWith("INJECT_COMMITMENTS_P2",
                   handle_inject_commitments_p2(G_frost_ctx, ram_after_ctx, N_frost, data),
                   FALSE, data)

PartialSign ==
    \E approved \in BOOLEAN, bn_ok \in BOOLEAN :
        Answer("PARTIAL_SIGN",
               handle_partial_sign(G_frost_ctx, ram_after_ctx, N_frost, approved, bn_ok),
               approved)

Reset ==
    Answer("RESET", handle_reset(G_frost_ctx, ram_after_ctx, N_frost), FALSE)

\* A request of length 0: THROW(SW_WRONG_LENGTH).
EmptyRequest ==
    Answer("empty", app_main_catch(G_frost_ctx, ram_after_ctx, N_frost, SW_WRONG_LENGTH), FALSE)

\* A class byte other than CLA_DEFAULT: THROW(SW_CLA_NOT_SUPPORTED).
UnknownClass ==
    Answer("unknown_class",
           app_main_catch(G_frost_ctx, ram_after_ctx, N_frost, SW_CLA_NOT_SUPPORTED), FALSE)

\* An instruction byte without a case: THROW(SW_INS_NOT_SUPPORTED).
UnknownInstruction ==
    Answer("unknown_instruction",
           app_main_catch(G_frost_ctx, ram_after_ctx, N_frost, SW_INS_NOT_SUPPORTED), FALSE)

Next ==
    \/ GetVersion
    \/ GetPublicKey
    \/ InjectKeys
    \/ Commit
    \/ InjectMessage
    \/ InjectCommitmentsP1
    \/ InjectCommitmentsP2
    \/ PartialSign
    \/ Reset
    \/ EmptyRequest
    \/ UnknownClass
    \/ UnknownInstruction

Spec == Init /\ [][Next]_vars

(***************************************************************************)
(* The curve and scalar functions called directly (curve.h), on argument   *)
(* buffers of any content.  arg1 is a scalar, the x-coordinate or the high *)
(* half; arg2 is a compressed point, a second scalar, the y-coordinate or  *)
(* the low half.                                                           *)
(***************************************************************************)
ByteStrings(n) == [1..n -> Byte]

CurveInit ==
    /\ SessionInit
    /\ fn = "none"
    /\ arg1 \in ByteStrings(CURVE_SCALAR_SIZE)
    /\ arg2 \in ByteStrings(CURVE_POINT_SIZE)
    /\ out = <<>>

\* A call returns: its name and its result are kept, the arguments are const.
\* The functions keep nothing between calls, so a behaviour is one call on the
\* arguments drawn.
Call(name, result) ==
    /\ fn = "none"
    /\ fn' = name
    /\ out' = result
    /\ UNCHANGED <<arg1, arg2, session_vars>>

Compress ==
    Call("bjj_compress", bjj_compress([x |-> BytesToInt(arg1), y |-> BytesToInt(arg2)]))

Decompress ==
    \E bn_ok \in BOOLEAN : Call("bjj_decompress", bjj_decompress(arg2, bn_ok))

IsValidPoint ==
    \E bn_ok \in BOOLEAN : Call("curve_is_valid_point", curve_is_valid_point(arg2, bn_ok))

ScalarMult ==
    \E bn_ok \in BOOLEAN : Call("curve_scalar_mult", curve_scalar_mult(arg1, arg2, bn_ok))

BaseMult ==
    \E bn_ok \in BOOLEAN : Call("curve_base_mult", curve_base_mult(arg1, bn_ok))

PointAdd ==
    \E bn_ok \in BOOLEAN : Call("curve_point_add", curve_point_add(arg1, arg2, bn_ok))

ScalarAdd == Call("curve_scalar_add", curve_scalar_add(arg1, arg2))

ScalarMul == Call("curve_scalar_mul", curve_scalar_mul(arg1, arg2))

ScalarReduce == Call("curve_scalar_reduce", curve_scalar_reduce(arg1))

ScalarReduce64 == Call("curve_scalar_reduce_64", curve_scalar_reduce_64(arg1 \o arg2))

CurveNext ==
    \/ Compress
    \/ Decompress
    \/ IsValidPoint
    \/ ScalarMult
    \/ BaseMult
    \/ PointAdd
    \/ ScalarAdd
    \/ ScalarMul
    \/ ScalarReduce
    \/ ScalarReduce64

CurveSpec == CurveInit /\ [][CurveNext]_vars

(***************************************************************************)
(* bjj_point_add_internal called directly (curve_bjj.c) on two 64-byte     *)
(* buffers: arg1 is any pair of field elements, arg2 one of three points.  *)
(***************************************************************************)
FieldElements == 0..(BJJ_PRIME - 1)

PointAddInit ==
    /\ SessionInit
    /\ fn = "none"
    /\ arg1 \in [x : FieldElements, y : FieldElements]
    /\ arg2 \in {BJJ_GENERATOR_UNCOMPRESSED, BJJ_IDENTITY, [x |-> 6, y |-> 1]}
    /\ out = <<>>

PointAddInternal ==
    \E bn_ok \in BOOLEAN :
        Call("bjj_point_add_internal", bjj_point_add_internal(arg1, arg2, bn_ok))

PointAddSpec == PointAddInit /\ [][PointAddInternal]_vars

(***************************************************************************)
(* compute_lagrange_coeff called directly (frost.c): arg1 is my_id, arg2   *)
(* the participant identifiers.                                            *)
(***************************************************************************)
\* Largest identifier drawn.
MaxId == 5

IdLists == UNION {[1..k -> 0..MaxId] : k \in 0..MAX_PARTICIPANTS}

LagrangeInit ==
    /\ SessionInit
    /\ fn = "none"
    /\ arg1 \in 1..MaxId
    /\ arg2 \in IdLists
    /\ out = <<>>

LagrangeCoeff == Call("compute_lagrange_coeff", compute_lagrange_coeff(arg1, arg2))

LagrangeSpec == LagrangeInit /\ [][LagrangeCoeff]_vars

(***************************************************************************)
(* frost_compute_partial_sig called directly (frost.c): arg1 holds the     *)
(* five scalar buffers, arg2 the identifier and the participant list.      *)
(***************************************************************************)
\* Largest identifier of the lists drawn for a signature.
MaxSigId == 3

\* Scalars in [0, n): the ends and two inner values.
SigScalars == {<<0>>, <<1>>, <<7>>, <<CURVE_ORDER - 1>>}

PartialSigInit ==
    /\ SessionInit
    /\ fn = "none"
    /\ arg1 \in [hiding_nonce : SigScalars, binding_nonce : SigScalars,
                 binding_factor : SigScalars, secret_share : SigScalars,
                 challenge : SigScalars]
    /\ arg2 \in [identifier : 1..MaxSigId,
                 participant_ids : UNION {[1..k -> 1..MaxSigId] : k \in 1..MAX_PARTICIPANTS}]
    /\ out = <<>>

PartialSig ==
    Call("frost_compute_partial_sig",
         frost_compute_partial_sig(arg1.hiding_nonce, arg1.binding_nonce,
                                   arg1.binding_factor, arg1.secret_share, arg1.challenge,
                                   arg2.identifier, arg2.participant_ids))

PartialSigSpec == PartialSigInit /\ [][PartialSig]_vars

(***************************************************************************)
(* frost_compute_group_commitment called directly (frost.c): arg1 is the   *)
(* result buffer before the call with the binding factors, arg2 the        *)
(* commitment list.                                                        *)
(***************************************************************************)
\* Compressed points of list entries: the generator, its double, a point
\* outside the generator's subgroup, and a string that does not decompress.
ListPoints == {CURVE_GENERATOR, <<149>>, <<3>>, <<2>>}

\* Binding factors: scalars as reduce_64 leaves them.
ListFactors == {<<0>>, <<1>>, <<7>>}

\* The lists of n entries; entry i carries identifier i.
ListsOf(n) ==
    {Flatten([i \in 1..n |-> IntToBytes(i, IDENTIFIER_SIZE) \o pts[i][1] \o pts[i][2]], 1) :
        pts \in [1..n -> ListPoints \X ListPoints]}

GroupCommitmentInit ==
    /\ SessionInit
    /\ fn = "none"
    /\ \E n \in 1..MAX_PARTICIPANTS :
           /\ arg1 \in [result : {Zeros(CURVE_POINT_SIZE), <<255>>},
                        binding_factors : {Flatten(f, 1) : f \in [1..n -> ListFactors]}]
           /\ arg2 \in ListsOf(n)
    /\ out = <<>>

GroupCommitment ==
    \E bn_ok \in BOOLEAN :
        Call("frost_compute_group_commitment",
             frost_compute_group_commitment(arg1.result, arg2, arg1.binding_factors,
                                            Len(arg2) \div COMMITMENT_ENTRY_SIZE, bn_ok))

GroupCommitmentSpec == GroupCommitmentInit /\ [][GroupCommitment]_vars

(***************************************************************************)
(* Properties of the signing session.                                      *)
(***************************************************************************)
SessionRequests ==
    {"COMMIT", "INJECT_MESSAGE", "INJECT_COMMITMENTS_P1", "INJECT_COMMITMENTS_P2",
     "PARTIAL_SIGN"}

NoncesZero ==
    /\ G_frost_ctx.hiding_nonce = Zeros(CURVE_SCALAR_SIZE)
    /\ G_frost_ctx.binding_nonce = Zeros(CURVE_SCALAR_SIZE)

\* The session right after construction: Idle and every other field zero.
SessionCleared ==
    /\ G_frost_ctx.state = FROST_STATE_IDLE
    /\ NoncesZero
    /\ G_frost_ctx.hiding_commit = Zeros(CURVE_POINT_SIZE)
    /\ G_frost_ctx.binding_commit = Zeros(CURVE_POINT_SIZE)
    /\ G_frost_ctx.message_hash = Zeros(CURVE_SCALAR_SIZE)
    /\ G_frost_ctx.num_participants = 0
    /\ G_frost_ctx.commitment_bytes_received = 0
    /\ G_frost_ctx.commitment_list = Zeros(COMMITMENT_LIST_SIZE)

\* C1: after every partial_sign request, whatever its outcome, the session is
\* Idle and both nonces are zero.
C1_PartialSignAlwaysEndsIdle ==
    ins = "PARTIAL_SIGN" => (G_frost_ctx.state = FROST_STATE_IDLE /\ NoncesZero)

\* C2: whenever a session handler answers with an error, the session is Idle
\* afterwards and holds no secret material.
C2_ErrorAlwaysEndsIdle ==
    (ins \in SessionRequests /\ sw # SW_OK) =>
        (G_frost_ctx.state = FROST_STATE_IDLE /\ NoncesZero)

\* The request answered by this step needs another session state than the one
\* the session is in.
WrongStateRequest ==
    \/ ins' = "COMMIT" /\ G_frost_ctx.state # FROST_STATE_IDLE
    \/ ins' = "INJECT_MESSAGE" /\ G_frost_ctx.state # FROST_STATE_COMMITTED
    \/ /\ ins' \in {"INJECT_COMMITMENTS_P1", "INJECT_COMMITMENTS_P2"}
       /\ G_frost_ctx.state # FROST_STATE_MESSAGE_SET
    \/ ins' = "PARTIAL_SIGN" /\ G_frost_ctx.state # FROST_STATE_COMMITMENTS_SET

\* With keys stored, the step the session state asks for is accepted: commit in
\* Idle, a digest in Committed, a list in MessageSet, and in CommitmentsSet the
\* signing request gets past the state check (the user is asked).
NextStepAccepted ==
    frost_has_keys(N_frost) =>
        /\ G_frost_ctx.state = FROST_STATE_IDLE =>
               handle_commit(G_frost_ctx, ram_after_ctx, N_frost, rng_calls, TRUE).sw = SW_OK
        /\ G_frost_ctx.state = FROST_STATE_COMMITTED =>
               handle_inject_message(G_frost_ctx, ram_after_ctx, N_frost, <<7>>).sw = SW_OK
        /\ G_frost_ctx.state = FROST_STATE_MESSAGE_SET =>
               handle_inject_commitments_p1(G_frost_ctx, ram_after_ctx, N_frost, 2,
                                            Entry1 \o Entry2).sw = SW_OK
        /\ G_frost_ctx.state = FROST_STATE_COMMITMENTS_SET =>
               handle_partial_sign(G_frost_ctx, ram_after_ctx, N_frost, TRUE, TRUE).asked

C4_NoncePairSignsOnce ==
    [][(ins' = "PARTIAL_SIGN" /\ sw' = SW_OK) =>
          LET pair == <<G_frost_ctx.hiding_nonce, G_frost_ctx.binding_nonce>>
          IN  /\ pair \notin sig_nonces
              /\ sig_nonces' = sig_nonces \cup {pair}
              /\ rng_calls >= 2
              /\ pair = <<curve_scalar_reduce(cx_rng(rng_calls - 2)),
                          curve_scalar_reduce(cx_rng(rng_calls - 1))>>]_vars

\* Two signatures have been computed.
C4_Witness == ins = "PARTIAL_SIGN" /\ sw = SW_OK /\ Cardinality(sig_nonces) = 2

\* C5: the session state moves only one step forward, by the successful request
\* of that step, or back to Idle; a signature is answered only from
\* CommitmentsSet with a declared and complete list.
C5_SignatureOnlyAfterFullPass ==
    [][/\ G_frost_ctx'.state \in {FROST_STATE_IDLE, FROST_STATE_COMMITTED,
                                  FROST_STATE_MESSAGE_SET, FROST_STATE_COMMITMENTS_SET}
       /\ (G_frost_ctx'.state = FROST_STATE_COMMITTED /\ G_frost_ctx.state # FROST_STATE_COMMITTED) =>
              (G_frost_ctx.state = FROST_STATE_IDLE /\ ins' = "COMMIT" /\ sw' = SW_OK)
       /\ (G_frost_ctx'.state = FROST_STATE_MESSAGE_SET /\ G_frost_ctx.state # FROST_STATE_MESSAGE_SET) =>
              (G_frost_ctx.state = FROST_STATE_COMMITTED /\ ins' = "INJECT_MESSAGE" /\ sw' = SW_OK)
       /\ (G_frost_ctx'.state = FROST_STATE_COMMITMENTS_SET
             /\ G_frost_ctx.state # FROST_STATE_COMMITMENTS_SET) =>
              /\ G_frost_ctx.state = FROST_STATE_MESSAGE_SET
              /\ ins' \in {"INJECT_COMMITMENTS_P1", "INJECT_COMMITMENTS_P2"}
              /\ sw' = SW_OK
       /\ (ins' = "PARTIAL_SIGN" /\ (sw' = SW_OK \/ response' # <<>>)) =>
              /\ G_frost_ctx.state = FROST_STATE_COMMITMENTS_SET
              /\ G_frost_ctx.num_participants \in 2..MAX_PARTICIPANTS
              /\ G_frost_ctx.commitment_bytes_received =
                     G_frost_ctx.num_participants * COMMITMENT_ENTRY_SIZE
              /\ G_frost_ctx'.state = FROST_STATE_IDLE]_vars

\* A signature has been answered.
C5_Witness ==
    ins = "PARTIAL_SIGN" /\ sw = SW_OK /\ Len(response) = CURVE_SCALAR_SIZE

\* C6: in CommitmentsSet a participant count in 2..MAX_PARTICIPANTS has been
\* declared and exactly that many entries have been received.
C6_CommitmentsSetMeansDeclaredAndComplete ==
    G_frost_ctx.state = FROST_STATE_COMMITMENTS_SET =>
        /\ G_frost_ctx.num_participants \in 2..MAX_PARTICIPANTS
        /\ G_frost_ctx.commitment_bytes_received =
               G_frost_ctx.num_participants * COMMITMENT_ENTRY_SIZE

\* C7: a reset request is answered SW_OK with no data, and leaves the session
\* Idle with every other field zero.
C7_ResetClearsSession ==
    ins = "RESET" => (sw = SW_OK /\ response = <<>> /\ SessionCleared)

\* A reset was answered with keys stored, after a session had drawn nonces and
\* received a list that reached the RAM behind the context.
C7_Witness ==
    /\ ins = "RESET"
    /\ frost_has_keys(N_frost)
    /\ rng_calls >= 2
    /\ ram_after_ctx # Zeros(RAM_AFTER_SIZE)

\* C8: a signing request answers a signature only when the user interface was
\* asked during that request and approved; when it denied, the answer is
\* SW_USER_REJECTED without data and the session is Idle with zero nonces.
C8_SignatureNeedsApproval ==
    ins = "PARTIAL_SIGN" =>
        /\ (sw = SW_OK \/ response # <<>>) => confirm = "approved"
        /\ confirm = "denied" =>
               /\ sw = SW_USER_REJECTED
               /\ response = <<>>
               /\ G_frost_ctx.state = FROST_STATE_IDLE
               /\ NoncesZero

\* The user denied a signing request.
C8_Witness == ins = "PARTIAL_SIGN" /\ confirm = "denied" /\ sw = SW_USER_REJECTED

\* The first index (1-based) of ids holding my_id, 0 when there is none.
FirstIndexOf(ids, my_id) ==
    IF \E i \in 1..Len(ids) : ids[i] = my_id
    THEN CHOOSE i \in 1..Len(ids) :
             ids[i] = my_id /\ \A j \in 1..(i - 1) : ids[j] # my_id
    ELSE 0

\* The partial signature of the session before this step, for the key share in
\* N_frost, with the binding factor of the first entry that carries the
\* device's identifier.
SignatureDue ==
    LET mem  == ListMemory(G_frost_ctx, ram_after_ctx)
        n    == G_frost_ctx.num_participants
        ids  == ParticipantIds(mem, n)
        k    == FirstIndexOf(ids, N_frost.identifier)
        enc  == frost_encode_commitments(mem, n)
        rho  == frost_compute_binding_factor(G_frost_ctx.message_hash, enc,
                    SubSeq(ListEntry(mem, k - 1), 1, IDENTIFIER_SIZE))
        R    == frost_compute_group_commitment(
                    Zeros(CURVE_POINT_SIZE), mem,
                    Flatten(BindingFactors(mem, n, G_frost_ctx.message_hash, enc), 1),
                    n, TRUE)
        chal == frost_compute_challenge(R.out, N_frost.group_public_key,
                                        G_frost_ctx.message_hash)
    IN  frost_compute_partial_sig(G_frost_ctx.hiding_nonce, G_frost_ctx.binding_nonce,
                                  rho, N_frost.secret_share, chal,
                                  N_frost.identifier, ids)

\* C9: the data of every answer is a public value: the two commitments for
\* COMMIT, the group public key for GET_PUBLIC_KEY, the byte count for the
\* list requests, the partial signature for PARTIAL_SIGN, the version for
\* GET_VERSION and nothing otherwise; the requests that read or write the key
\* share write nothing to the session but the zeros of a reset.
C9_AnswersCarryPublicValuesOnly ==
    [][/\ response' =
            IF sw' # SW_OK THEN <<>>
            ELSE IF ins' = "COMMIT"
                 THEN curve_base_mult(G_frost_ctx'.hiding_nonce, TRUE).out
                          \o curve_base_mult(G_frost_ctx'.binding_nonce, TRUE).out
            ELSE IF ins' = "GET_PUBLIC_KEY" THEN N_frost.group_public_key
            ELSE IF ins' \in {"INJECT_COMMITMENTS_P1", "INJECT_COMMITMENTS_P2"}
                 THEN <<G_frost_ctx'.commitment_bytes_received \div 256,
                        G_frost_ctx'.commitment_bytes_received % 256>>
            ELSE IF ins' = "PARTIAL_SIGN" THEN SignatureDue
            ELSE IF ins' = "GET_VERSION"
                 THEN <<MAJOR_VERSION, MINOR_VERSION, PATCH_VERSION>>
            ELSE <<>>
       /\ ins' \in {"INJECT_KEYS", "GET_PUBLIC_KEY"} => G_frost_ctx' = G_frost_ctx
       /\ ins' = "PARTIAL_SIGN" =>
              \/ G_frost_ctx' = G_frost_ctx
              \/ G_frost_ctx' = [G_frost_ctx EXCEPT
                     !.state = FROST_STATE_IDLE,
                     !.hiding_nonce = Zeros(CURVE_SCALAR_SIZE),
                     !.binding_nonce = Zeros(CURVE_SCALAR_SIZE),
                     !.hiding_commit = Zeros(CURVE_POINT_SIZE),
                     !.binding_commit = Zeros(CURVE_POINT_SIZE),
                     !.message_hash = Zeros(CURVE_SCALAR_SIZE),
                     !.num_participants = 0,
                     !.commitment_bytes_received = 0,
                     !.commitment_list = Zeros(COMMITMENT_LIST_SIZE)]]_vars

\* The group public key has been answered while a session holds nonces.
C9_Witness ==
    /\ ins = "GET_PUBLIC_KEY"
    /\ sw = SW_OK
    /\ response = N_frost.group_public_key
    /\ ~NoncesZero

\* C10: an approved signing request whose list lacks the device's identifier
\* is answered SW_INVALID_DATA without data and resets the session; a signature
\* that is answered uses the binding factor of the first entry carrying the
\* device's identifier.
C10_OwnIdentifierFirstMatch ==
    [][(ins' = "PARTIAL_SIGN" /\ confirm' = "approved") =>
          LET ids == ParticipantIds(ListMemory(G_frost_ctx, ram_after_ctx),
                                    G_frost_ctx.num_participants)
          IN  IF FirstIndexOf(ids, N_frost.identifier) = 0
              THEN /\ sw' = SW_INVALID_DATA
                   /\ response' = <<>>
                   /\ SessionCleared'
              ELSE sw' = SW_OK => response' = SignatureDue]_vars

\* An approved signing request failed because the own identifier is not listed.
C10_Witness ==
    /\ ins = "PARTIAL_SIGN"
    /\ confirm = "approved"
    /\ sw = SW_INVALID_DATA

\* The list the session holds carries one participant identifier twice.
ListHasDuplicateIdentifier ==
    LET ids == ParticipantIds(ListMemory(G_frost_ctx, ram_after_ctx),
                              G_frost_ctx.num_participants)
    IN  \E i, j \in 1..Len(ids) : i # j /\ ids[i] = ids[j]

\* C11: an approved signing request on a list that carries one participant
\* identifier twice is answered with an error and without a signature.
C11_DuplicateIdentifierRejected ==
    [][(ins' = "PARTIAL_SIGN" /\ confirm' = "approved" /\ ListHasDuplicateIdentifier) =>
          (sw' # SW_OK /\ response' = <<>>)]_vars

RECURSIVE SumOfCopies(_, _)
\* pt added to the identity k times with the addition law of the curve.
SumOfCopies(pt, k) ==
    IF k = 0 THEN BJJ_IDENTITY
    ELSE bjj_point_add_internal(SumOfCopies(pt, k - 1), pt, TRUE).pt

\* The draw made by call number `calls` + 1 of the random source, reduced
\* modulo the subgroup order.
ReducedDraw(calls) ==
    IntToBytes(BytesToInt(cx_rng(calls)) % CURVE_ORDER, CURVE_SCALAR_SIZE)

\* C12: a successful commit happens with keys in Idle, makes exactly two draws,
\* stores them reduced modulo the subgroup order as the nonces, stores nonce x G
\* as the commitments, moves to Committed, leaves the rest of the session as it
\* was and answers the two commitments; without keys it fails and the session
\* stays as it was, in Idle; after a failed base-point multiplication the
\* session is cleared.
C12_CommitDrawsReducesCommits ==
    [][ins' = "COMMIT" =>
          /\ sw' = SW_OK =>
                /\ frost_has_keys(N_frost)
                /\ G_frost_ctx.state = FROST_STATE_IDLE
                /\ rng_calls' = rng_calls + 2
                /\ G_frost_ctx' =
                       [G_frost_ctx EXCEPT
                           !.hiding_nonce = ReducedDraw(rng_calls),
                           !.binding_nonce = ReducedDraw(rng_calls + 1),
                           !.hiding_commit =
                               bjj_compress(SumOfCopies(BJJ_GENERATOR_UNCOMPRESSED,
                                   BytesToInt(ReducedDraw(rng_calls)))),
                           !.binding_commit =
                               bjj_compress(SumOfCopies(BJJ_GENERATOR_UNCOMPRESSED,
                                   BytesToInt(ReducedDraw(rng_calls + 1)))),
                           !.state = FROST_STATE_COMMITTED]
                /\ response' = G_frost_ctx'.hiding_commit \o G_frost_ctx'.binding_commit
          /\ ~frost_has_keys(N_frost) =>
                /\ sw' # SW_OK
                /\ response' = <<>>
                /\ UNCHANGED <<G_frost_ctx, rng_calls>>
                /\ G_frost_ctx'.state = FROST_STATE_IDLE
          /\ sw' = SW_INTERNAL_ERROR => (response' = <<>> /\ SessionCleared')]_vars

\* A commit has succeeded.
C12_Witness ==
    /\ ins = "COMMIT"
    /\ sw = SW_OK
    /\ G_frost_ctx.state = FROST_STATE_COMMITTED
    /\ Len(response) = 2 * CURVE_POINT_SIZE

\* C13: while a list is being received or is complete, the session's list
\* holds byte for byte the chunks in the order they arrived, cut at the declared
\* total, and the byte count is their length; each list request answers the
\* byte count, which does not decrease from one part-2 request to the next and
\* never exceeds the declared total.
C13_ListIsConcatenationOfChunks ==
    /\ [](G_frost_ctx.state \in {FROST_STATE_MESSAGE_SET, FROST_STATE_COMMITMENTS_SET} =>
             /\ G_frost_ctx.commitment_bytes_received = Len(wire)
             /\ Len(wire) <= Len(G_frost_ctx.commitment_list)
             /\ SubSeq(G_frost_ctx.commitment_list, 1, Len(wire)) = wire
             /\ G_frost_ctx.commitment_bytes_received <=
                    G_frost_ctx.num_participants * COMMITMENT_ENTRY_SIZE)
    /\ [][(ins' \in {"INJECT_COMMITMENTS_P1", "INJECT_COMMITMENTS_P2"} /\ sw' = SW_OK) =>
             /\ response' = <<G_frost_ctx'.commitment_bytes_received \div 256,
                              G_frost_ctx'.commitment_bytes_received % 256>>
             /\ ins' = "INJECT_COMMITMENTS_P2" =>
                    G_frost_ctx'.commitment_bytes_received >=
                        G_frost_ctx.commitment_bytes_received]_vars

\* C14: once a key share is stored, no request changes the stored record.
C14_StoredKeyShareNeverChanges ==
    [][frost_has_keys(N_frost) => N_frost' = N_frost]_vars

\* The key request answered by this step passes every check: P1 is the build's
\* curve, the payload has exactly the length of a key share, the identifier in
\* the low-order two bytes of its identifier field is not 0 and the user
\* approved.
KeyRequestValid ==
    /\ request'[1] = CURVE_ID
    /\ Len(request') = 1 + INJECT_KEYS_LEN
    /\ request'[1 + CURVE_POINT_SIZE + IDENTIFIER_SIZE - 1] * 256
           + request'[1 + CURVE_POINT_SIZE + IDENTIFIER_SIZE] # 0
    /\ confirm' = "approved"

StatusWithoutKeys ==
    handle_partial_sign(G_frost_ctx, ram_after_ctx, ZeroStorage, TRUE, TRUE).sw

\* The status that answers a signing request when a key share is stored and the
\* session is Idle.
StatusInWrongState ==
    handle_partial_sign([G_frost_ctx EXCEPT !.state = FROST_STATE_IDLE],
                        ram_after_ctx, N_frost, TRUE, TRUE).sw

\* C16: the host can tell the three failures apart by the status: a signing
\* request refused for the session state is not answered with the status of
\* missing keys, and a signing request the user denied is answered with neither
\* of the two.
C16_FailureKindsDistinct ==
    [][ins' = "PARTIAL_SIGN" /\ frost_has_keys(N_frost) =>
          /\ G_frost_ctx.state # FROST_STATE_COMMITMENTS_SET =>
                 /\ sw' = StatusInWrongState
                 /\ sw' # StatusWithoutKeys
          /\ confirm' = "denied" =>
                 /\ sw' # StatusWithoutKeys
                 /\ sw' # StatusInWrongState]_vars

(***************************************************************************)
(* Properties of the curve and scalar functions.                           *)
(***************************************************************************)
\* A valid point: both coordinates are field elements and satisfy
\* a*x^2 + y^2 = 1 + d*x^2*y^2.
OnCurve(pt) ==
    (BJJ_A * pt.x * pt.x + pt.y * pt.y) % BJJ_PRIME
        = (1 + BJJ_D * pt.x * pt.x * pt.y * pt.y) % BJJ_PRIME

ValidPoint(pt) == pt.x < BJJ_PRIME /\ pt.y < BJJ_PRIME /\ OnCurve(pt)

ArgPoint == [x |-> BytesToInt(arg1), y |-> BytesToInt(arg2)]

\* Every valid point comes back from decompressing its compression.
CompressThenDecompress ==
    (fn = "bjj_compress" /\ ValidPoint(ArgPoint)) =>
        bjj_decompress(out, TRUE) = [ok |-> TRUE, pt |-> ArgPoint]

\* Every string that decompress accepts comes back from compressing its point.
DecompressThenCompress ==
    (fn = "bjj_decompress" /\ out.ok) => bjj_compress(out.pt) = arg2

\* C17: compression and decompression round-trip exactly, in both directions,
\* for every valid point and for every string that decompress accepts.
C17_CompressionRoundTrips == CompressThenDecompress /\ DecompressThenCompress

\* C18: a compressed point that base_mult, point_add or scalar_mult returns is
\* accepted by is_valid_point, and a point that decompress accepts satisfies
\* the curve equation.
C18_ResultsAreValidPoints ==
    /\ (fn \in {"curve_base_mult", "curve_point_add", "curve_scalar_mult"} /\ out.ok) =>
           curve_is_valid_point(out.out, TRUE)
    /\ (fn = "bjj_decompress" /\ out.ok) => OnCurve(out.pt)

\* The generator added to its double gave the compressed triple.
C18_Witness ==
    /\ fn = "curve_point_add"
    /\ arg1 = CURVE_GENERATOR
    /\ arg2 = <<149>>
    /\ out = [ok |-> TRUE, out |-> <<194>>]

\* Largest scalar for which the sum is written out term by term.
MaxFold == 16

RECURSIVE KFoldSum(_, _)
\* P + P + ... + P with k terms under point_add, the identity's encoding for
\* no term.
KFoldSum(P, k) ==
    IF k = 0 THEN bjj_compress(BJJ_IDENTITY)
    ELSE curve_point_add(KFoldSum(P, k - 1), P, TRUE).out

\* scalar_mult(k, P) for the scalar and the point of the call made: 0 * P is
\* the identity and k * P is (k - 1) * P plus P, which makes k * P the k-fold
\* sum for every k; for k up to MaxFold the sum is also written out.
ScalarMultIsRepeatedAddition(k, P, result) ==
    /\ k = 0 => result = bjj_compress(BJJ_IDENTITY)
    /\ k > 0 =>
           result = curve_point_add(
                        curve_scalar_mult(IntToBytes(k - 1, CURVE_SCALAR_SIZE), P, TRUE).out,
                        P, TRUE).out
    /\ k <= MaxFold => result = KFoldSum(P, k)

\* C19: scalar_mult(k, P) is the k-fold sum of P under point_add, and base_mult
\* the same for the generator: generator x 1 is the generator's encoding and
\* generator x 0 the identity's.
C19_ScalarMultIsRepeatedAddition ==
    /\ (fn = "curve_scalar_mult" /\ out.ok) =>
           ScalarMultIsRepeatedAddition(BytesToInt(arg1), arg2, out.out)
    /\ (fn = "curve_base_mult" /\ out.ok) =>
           /\ ScalarMultIsRepeatedAddition(BytesToInt(arg1), CURVE_GENERATOR, out.out)
           /\ BytesToInt(arg1) = 1 => out.out = CURVE_GENERATOR
           /\ BytesToInt(arg1) = 0 => out.out = bjj_compress(BJJ_IDENTITY)

\* A point outside the generator's subgroup was multiplied by a scalar with
\* the top bit set and gave neither the identity nor the point.
C19_Witness ==
    /\ fn = "curve_scalar_mult"
    /\ out.ok
    /\ BytesToInt(arg1) >= 128
    /\ arg2 \notin {KFoldSum(CURVE_GENERATOR, k) : k \in 0..(CURVE_ORDER - 1)}
    /\ out.out # bjj_compress(BJJ_IDENTITY)
    /\ out.out # arg2

\* C20: reduce_64 of the double-width value high * 2^(8 * CURVE_SCALAR_SIZE) + low
\* is that value modulo the subgroup order, a scalar in [0, n); the sum and the
\* product of two scalars in [0, n) are scalars in [0, n), the sum and the
\* product modulo n.
C20_ScalarResultsReduced ==
    /\ fn = "curve_scalar_reduce_64" =>
           /\ BytesToInt(out)
                  = (BytesToInt(arg1) * Pow(256, CURVE_SCALAR_SIZE) + BytesToInt(arg2))
                        % CURVE_ORDER
           /\ BytesToInt(out) \in 0..(CURVE_ORDER - 1)
           /\ Len(out) = CURVE_SCALAR_SIZE
    /\ (/\ fn \in {"curve_scalar_add", "curve_scalar_mul"}
        /\ BytesToInt(arg1) < CURVE_ORDER
        /\ BytesToInt(arg2) < CURVE_ORDER) =>
           /\ BytesToInt(out) \in 0..(CURVE_ORDER - 1)
           /\ fn = "curve_scalar_add" =>
                  BytesToInt(out) = (BytesToInt(arg1) + BytesToInt(arg2)) % CURVE_ORDER
           /\ fn = "curve_scalar_mul" =>
                  BytesToInt(out) = (BytesToInt(arg1) * BytesToInt(arg2)) % CURVE_ORDER

\* The largest double-width value was reduced: 65535 is 8 modulo 11.
C20_Witness ==
    /\ fn = "curve_scalar_reduce_64"
    /\ arg1 = <<255>>
    /\ arg2 = <<255>>
    /\ out = <<8>>

(***************************************************************************)
(* Properties of the FROST functions.                                      *)
(***************************************************************************)
\* The identifiers of a list are non-zero and pairwise distinct.
DistinctNonZero(ids) ==
    /\ \A j \in 1..Len(ids) : ids[j] # 0
    /\ \A j, k \in 1..Len(ids) : j # k => ids[j] # ids[k]

RECURSIVE ProductOf(_)
\* The product of the numbers of a set modulo the subgroup order, 1 for the
\* empty set.
ProductOf(S) ==
    IF S = {} THEN 1
    ELSE LET x == CHOOSE y \in S : TRUE
         IN  (x * ProductOf(S \ {x})) % CURVE_ORDER

RECURSIVE ProductOfDifferences(_, _)
\* The product of (x - my_id) over the numbers x of a set, modulo the order.
ProductOfDifferences(S, my_id) ==
    IF S = {} THEN 1
    ELSE LET x == CHOOSE y \in S : TRUE
         IN  (((x - my_id + CURVE_ORDER) % CURVE_ORDER)
                 * ProductOfDifferences(S \ {x}, my_id)) % CURVE_ORDER

\* lambda is the product over the set `others` of x / (x - my_id) modulo the
\* order: the one residue whose product with all the denominators is the
\* product of all the numerators.  The set carries no order.
IsLagrangeCoeff(lambda, my_id, others) ==
    /\ lambda \in 0..(CURVE_ORDER - 1)
    /\ (lambda * ProductOfDifferences(others, my_id)) % CURVE_ORDER = ProductOf(others)
    /\ ProductOfDifferences(others, my_id) # 0

\* C21: for a list of pairwise distinct non-zero identifiers that contains
\* my_id, compute_lagrange_coeff returns the product over the other entries of
\* x_j / (x_j - my_id) modulo the subgroup order, 1 when there is no other
\* entry, whatever the order of the list.
C21_LagrangeCoefficient ==
    (/\ fn = "compute_lagrange_coeff"
     /\ DistinctNonZero(arg2)
     /\ \E j \in 1..Len(arg2) : arg2[j] = arg1) =>
        /\ Len(out) = CURVE_SCALAR_SIZE
        /\ IsLagrangeCoeff(BytesToInt(out), arg1, {arg2[j] : j \in 1..Len(arg2)} \ {arg1})
        /\ Len(arg2) = 1 => BytesToInt(out) = 1

\* The coefficient of identifier 2 in the list 3, 2, 1 is 3/(3-2) * 1/(1-2) = -3.
C21_Witness ==
    /\ fn = "compute_lagrange_coeff"
    /\ arg1 = 2
    /\ arg2 = <<3, 2, 1>>
    /\ out = <<CURVE_ORDER - 3>>

\* The hiding and the binding point of entry i (from 1) of a list.
HidingPoint(list, i) ==
    SubSeq(ListEntry(list, i - 1), IDENTIFIER_SIZE + 1, IDENTIFIER_SIZE + CURVE_POINT_SIZE)
BindingPoint(list, i) ==
    SubSeq(ListEntry(list, i - 1), IDENTIFIER_SIZE + CURVE_POINT_SIZE + 1,
           COMMITMENT_ENTRY_SIZE)

\* HidingPoint_i + rho_i * BindingPoint_i as a point with coordinates, the
\* multiple being the sum of rho_i copies of the binding point.
EntryTerm(list, factors, i) ==
    bjj_point_add_internal(
        bjj_decompress(HidingPoint(list, i), TRUE).pt,
        SumOfCopies(bjj_decompress(BindingPoint(list, i), TRUE).pt,
                    BytesToInt(SubSeq(factors, (i - 1) * CURVE_SCALAR_SIZE + 1,
                                      i * CURVE_SCALAR_SIZE))),
        TRUE).pt

RECURSIVE SumOfTerms(_, _, _)
\* The terms of entries 1..i added up in list order.
SumOfTerms(list, factors, i) ==
    IF i = 1 THEN EntryTerm(list, factors, 1)
    ELSE bjj_point_add_internal(SumOfTerms(list, factors, i - 1),
                                EntryTerm(list, factors, i), TRUE).pt

AllPointsValid(list) ==
    \A i \in 1..(Len(list) \div COMMITMENT_ENTRY_SIZE) :
        /\ curve_is_valid_point(HidingPoint(list, i), TRUE)
        /\ curve_is_valid_point(BindingPoint(list, i), TRUE)

\* C23: a successful frost_compute_group_commitment returns the sum over the
\* entries, in list order, of HidingPoint_i + rho_i * BindingPoint_i with the
\* i-th binding factor; it fails when a point of the list is invalid, and a
\* failed call leaves the result buffer as it was.
C23_GroupCommitmentIsSumOfTerms ==
    fn = "frost_compute_group_commitment" =>
        /\ out.ok =>
               /\ AllPointsValid(arg2)
               /\ out.out = bjj_compress(SumOfTerms(arg2, arg1.binding_factors,
                                                    Len(arg2) \div COMMITMENT_ENTRY_SIZE))
        /\ ~AllPointsValid(arg2) => ~out.ok
        /\ ~out.ok => out.out = arg1.result

\* Three entries with factors 1, 7 and 0 were summed to a point.
C23_Witness ==
    /\ fn = "frost_compute_group_commitment"
    /\ out.ok
    /\ Len(arg2) = 3 * COMMITMENT_ENTRY_SIZE
    /\ arg1.binding_factors = <<1, 7, 0>>
    /\ HidingPoint(arg2, 1) # HidingPoint(arg2, 2)
    /\ out.out # bjj_compress(BJJ_IDENTITY)

\* The Lagrange coefficient of my_id over a list of pairwise distinct
\* identifiers that contains it.
LagrangeOf(my_id, ids) ==
    CHOOSE lambda \in 0..(CURVE_ORDER - 1) :
        IsLagrangeCoeff(lambda, my_id, {ids[j] : j \in 1..Len(ids)} \ {my_id})

\* The signature share of a call on a list of pairwise distinct identifiers
\* that contains the device's.
PartialSigValue ==
    (/\ fn = "frost_compute_partial_sig"
     /\ DistinctNonZero(arg2.participant_ids)
     /\ \E j \in 1..Len(arg2.participant_ids) : arg2.participant_ids[j] = arg2.identifier) =>
        /\ Len(out) = CURVE_SCALAR_SIZE
        /\ BytesToInt(out)
               = (BytesToInt(arg1.hiding_nonce)
                    + BytesToInt(arg1.binding_nonce) * BytesToInt(arg1.binding_factor)
                    + BytesToInt(arg1.secret_share) * BytesToInt(arg1.challenge)
                        * LagrangeOf(arg2.identifier, arg2.participant_ids))
                 % CURVE_ORDER

\* C22: frost_compute_partial_sig returns hiding_nonce + binding_nonce *
\* binding_factor + secret_share * challenge * lambda modulo the subgroup
\* order, lambda being the Lagrange coefficient of the identifier over the
\* list, and the call leaves the nonces and the secret share it is given as
\* they are.
C22_PartialSignatureFormula ==
    /\ []PartialSigValue
    /\ [][fn' = "frost_compute_partial_sig" => arg1' = arg1]_vars

\* Identifier 2 of the list 3, 2, 1 signed with every scalar at n - 1.
C22_Witness ==
    /\ fn = "frost_compute_partial_sig"
    /\ arg2 = [identifier |-> 2, participant_ids |-> <<3, 2, 1>>]
    /\ \A f \in DOMAIN arg1 : arg1[f] = <<CURVE_ORDER - 1>>
    /\ out = <<(CURVE_ORDER - 1 + 1 + (CURVE_ORDER - 3)) % CURVE_ORDER>>

(***************************************************************************)
(* Further properties of the signing session.                              *)
(***************************************************************************)
\* Some hiding or binding point of the declared entries does not decompress.
ListHasInvalidPoint ==
    \E i \in 1..G_frost_ctx.num_participants :
        \/ ~curve_is_valid_point(
                HidingPoint(ListMemory(G_frost_ctx, ram_after_ctx), i), TRUE)
        \/ ~curve_is_valid_point(
                BindingPoint(ListMemory(G_frost_ctx, ram_after_ctx), i), TRUE)

\* C24: a signing request the user approved, on a completed list with a point
\* that is not a valid compressed point, is answered with an error and no
\* data and leaves the session Idle with zeroed nonces.
C24_InvalidPointFailsSigning ==
    [][(/\ ins' = "PARTIAL_SIGN"
        /\ frost_has_keys(N_frost)
        /\ G_frost_ctx.state = FROST_STATE_COMMITMENTS_SET
        /\ confirm' = "approved"
        /\ ListHasInvalidPoint) =>
           /\ sw' # SW_OK
           /\ response' = <<>>
           /\ G_frost_ctx'.state = FROST_STATE_IDLE
           /\ G_frost_ctx'.hiding_nonce = Zeros(CURVE_SCALAR_SIZE)
           /\ G_frost_ctx'.binding_nonce = Zeros(CURVE_SCALAR_SIZE)
           /\ sig_nonces' = sig_nonces]_vars

\* A list with an invalid point was accepted whole: the list request that
\* completed it was answered with success and the session is CommitmentsSet.
C24_Witness ==
    /\ ins \in {"INJECT_COMMITMENTS_P1", "INJECT_COMMITMENTS_P2"}
    /\ sw = SW_OK
    /\ G_frost_ctx.state = FROST_STATE_COMMITMENTS_SET
    /\ G_frost_ctx.num_participants = 2
    /\ ListHasInvalidPoint
    /\ \E i \in 1..2 :
           ParticipantIds(ListMemory(G_frost_ctx, ram_after_ctx), 2)[i] = N_frost.identifier

\* One of the two denominators of the addition law, 1 + d*x1*x2*y1*y2 and
\* 1 - d*x1*x2*y1*y2, is zero for the points p1 and p2.
ZeroDenominator(p1, p2) ==
    \/ (1 + BJJ_D * p1.x * p2.x * p1.y * p2.y) % BJJ_PRIME = 0
    \/ (BJJ_PRIME * BJJ_PRIME * BJJ_PRIME * BJJ_PRIME * BJJ_D + 1
            - BJJ_D * p1.x * p2.x * p1.y * p2.y) % BJJ_PRIME = 0

C26_ListFitsBuffer ==
    /\ G_frost_ctx.num_participants * COMMITMENT_ENTRY_SIZE <= COMMITMENT_LIST_SIZE
    /\ G_frost_ctx.commitment_bytes_received
           <= G_frost_ctx.num_participants * COMMITMENT_ENTRY_SIZE
    /\ G_frost_ctx.commitment_bytes_received <= COMMITMENT_LIST_SIZE

\* The requests the dispatcher answers itself, by a thrown status.
DispatcherErrors == {"empty", "unknown_class", "unknown_instruction"}

\* The status the dispatcher throws for each of them.
ThrownStatus(name) ==
    IF name = "empty" THEN SW_WRONG_LENGTH
    ELSE IF name = "unknown_class" THEN SW_CLA_NOT_SUPPORTED
    ELSE SW_INS_NOT_SUPPORTED

\* The handlers that return their error status without resetting the session
\* themselves.
ReturningHandlers ==
    {"GET_PUBLIC_KEY", "INJECT_KEYS", "COMMIT", "INJECT_MESSAGE",
     "INJECT_COMMITMENTS_P1", "INJECT_COMMITMENTS_P2"}

DispatcherErrorResets ==
    ins \in DispatcherErrors =>
        /\ sw = ThrownStatus(ins)
        /\ response = <<>>
        /\ G_frost_ctx.state = FROST_STATE_IDLE
        /\ NoncesZero

KeyRequests == {"GET_VERSION", "GET_PUBLIC_KEY", "INJECT_KEYS"}

HoldsMessage(c) == c.state \in {FROST_STATE_MESSAGE_SET, FROST_STATE_COMMITMENTS_SET}

\* C29: within one session the nonces, the device's own commitments and the
\* message hash are written once: while the session stays out of Idle no step
\* changes the nonces or the commitments, from MessageSet on no step changes
\* the message hash, and the one request that writes the hash is the
\* successful inject_message that leaves Committed.
C29_SessionSecretsWrittenOnce ==
    [][/\ (G_frost_ctx.state # FROST_STATE_IDLE /\ G_frost_ctx'.state # FROST_STATE_IDLE) =>
              /\ G_frost_ctx'.hiding_nonce = G_frost_ctx.hiding_nonce
              /\ G_frost_ctx'.binding_nonce = G_frost_ctx.binding_nonce
              /\ G_frost_ctx'.hiding_commit = G_frost_ctx.hiding_commit
              /\ G_frost_ctx'.binding_commit = G_frost_ctx.binding_commit
       /\ (HoldsMessage(G_frost_ctx) /\ HoldsMessage(G_frost_ctx')) =>
              G_frost_ctx'.message_hash = G_frost_ctx.message_hash
       /\ (G_frost_ctx'.state # FROST_STATE_IDLE
             /\ G_frost_ctx'.message_hash # G_frost_ctx.message_hash) =>
              /\ ins' = "INJECT_MESSAGE"
              /\ sw' = SW_OK
              /\ G_frost_ctx.state = FROST_STATE_COMMITTED
              /\ G_frost_ctx'.state = FROST_STATE_MESSAGE_SET]_vars

\* A second message was refused in a session that holds a complete list, and
\* the session still holds its first message and its nonces.
C29_Witness ==
    /\ ins = "INJECT_MESSAGE"
    /\ sw = SW_CONDITIONS_NOT_SAT
    /\ G_frost_ctx.state = FROST_STATE_COMMITMENTS_SET
    /\ G_frost_ctx.message_hash = <<9>>
    /\ ~NoncesZero

\* C30: a session state other than Idle implies that keys are provisioned: the
\* session leaves Idle only by a successful generate_commitments of a
\* provisioned device, and no request clears the stored keys.
C30_ActiveSessionHasKeys ==
    /\ [](G_frost_ctx.state # FROST_STATE_IDLE => frost_has_keys(N_frost))
    /\ [][/\ frost_has_keys(N_frost) => frost_has_keys(N_frost')
          /\ (G_frost_ctx.state = FROST_STATE_IDLE /\ G_frost_ctx'.state # FROST_STATE_IDLE) =>
                 (ins' = "COMMIT" /\ sw' = SW_OK /\ frost_has_keys(N_frost))]_vars

\* A session of a provisioned device has left Idle and holds its complete list.
C30_Witness ==
    /\ G_frost_ctx.state = FROST_STATE_COMMITMENTS_SET
    /\ frost_has_keys(N_frost)
    /\ N_frost.initialized = 1
    /\ ins \in {"INJECT_COMMITMENTS_P1", "INJECT_COMMITMENTS_P2"}

=============================================================================
